---- MODULE Spec2Model ----
(***************************************************************************)
(* Page Sync relay server: in-memory per-tenant state cache, WebSocket     *)
(* fan-out and time-based garbage collector.                               *)
(*                                                                         *)
(* The multi-tenant relay (src/unnamed/part_000) is the main model; the     *)
(* single-tenant relay (src/server/index.js) is modelled beside it, and a  *)
(* process runs one of the two.  Every action is one event-loop step of    *)
(* the Node.js process: an HTTP handler, a request-stream event, a         *)
(* WebSocket event or a timer callback.                                    *)
(***************************************************************************)
EXTENDS Integers, Sequences, FiniteSets, TLC

(***************************************************************************)
(* Bounds of the model.                                                    *)
(***************************************************************************)
MaxSteps == 7
MaxConns == 2
MaxRequests == 2
MaxPluginSteps == 10
MaxTasks == 2

(***************************************************************************)
(* Program constants.                                                      *)
(***************************************************************************)
MAX_BODY_BYTES == 1000000
INACTIVITY_TTL_MS == 86400000
MAX_ID_LENGTH == 128
LOCAL_NAV_DEBOUNCE_MS == 250
REMOTE_NAV_SUPPRESSION_MS == 600
WS_RECONNECT_MAX_DELAY_MS == 8000
WS_RECONNECT_BASE_DELAY_MS == 500
INVALID_WS_PAYLOAD_THRESHOLD == 3
INVALID_WS_PAYLOAD_WINDOW_MS == 30000
DEFAULT_INACTIVITY_HOURS == 3
MS_PER_HOUR == 3600000

(***************************************************************************)
(* Nullable values: null is the empty tuple, a value v is <<v>>.           *)
(***************************************************************************)
Null == <<>>
Some(v) == <<v>>
IsNull(x) == x = <<>>
Val(x) == x[1]

(***************************************************************************)
(* Strings.  A string is a TLA+ string; CharsOf gives its characters so    *)
(* that the safe-id rule is computed from the characters and the length.   *)
(***************************************************************************)
LongId == "aaa_129_chars"

CharsOf(s) ==
  CASE s = "" -> <<>>
    [] s = "u1" -> <<"u", "1">>
    [] s = "u2" -> <<"u", "2">>
    [] s = "r1" -> <<"r", "1">>
    [] s = "r2" -> <<"r", "2">>
    [] s = "d1" -> <<"d", "1">>
    [] s = "d2" -> <<"d", "2">>
    [] s = "strong" -> <<"s", "t", "r", "o", "n", "g">>
    [] s = "weak" -> <<"w", "e", "a", "k">>
    [] s = "a b" -> <<"a", " ", "b">>
    [] s = "a/b" -> <<"a", "/", "b">>
    [] s = "2024-01-01T00:00:00.000Z" -> <<"2", "0", "2", "4", "-", "0", "1", "-", "0", "1", "T", "0", "0", ":", "0", "0", ":", "0", "0", ".", "0", "0", "0", "Z">>
    [] s = "2024-01-02T00:00:00.000Z" -> <<"2", "0", "2", "4", "-", "0", "1", "-", "0", "2", "T", "0", "0", ":", "0", "0", ":", "0", "0", ".", "0", "0", "0", "Z">>
    [] s = "yesterday" -> <<"y", "e", "s", "t", "e", "r", "d", "a", "y">>
    [] s = LongId -> [i \in 1..(MAX_ID_LENGTH + 1) |-> "a"]

\* SAFE_ID_REGEX = /^[A-Za-z0-9_-]+$/ : the characters the class admits.
SafeChars ==
  {"a", "b", "d", "e", "g", "k", "n", "o", "r", "s", "t", "u", "w", "y",
   "A", "T", "Z", "0", "1", "2", "4", "9", "_", "-"}

SAFE_ID_REGEX_test(s) ==
  /\ Len(CharsOf(s)) > 0
  /\ \A i \in 1..Len(CharsOf(s)) : CharsOf(s)[i] \in SafeChars

\* Date.parse: the time of a parseable string (in seconds here, the ms value
\* exceeds TLC's 32-bit integers), NaN (null here) otherwise.
DateParse(s) ==
  CASE s = "2024-01-01T00:00:00.000Z" -> Some(1704067200)
    [] s = "2024-01-02T00:00:00.000Z" -> Some(1704153600)
    [] OTHER -> Null

(***************************************************************************)
(* JSON values as JSON.parse returns them.                                 *)
(***************************************************************************)
JStr(s) == [t |-> "string", s |-> s]
JNull == [t |-> "null", s |-> ""]
JNumber == [t |-> "number", s |-> ""]
Undefined == [t |-> "undefined", s |-> ""]
EmptyFields == [k \in {} |-> Undefined]
JObj(fields) == [t |-> "object", f |-> fields]
JArray == [t |-> "array", f |-> EmptyFields]
JPrimitive(t) == [t |-> t, f |-> EmptyFields]
Get(payload, key) == IF key \in DOMAIN payload.f THEN payload.f[key] ELSE Undefined

ALLOWED_UPDATE_KEYS == {"remId", "strength", "userId", "sourceClientId", "sentAt"}

isPlainObject(value) == value.t = "object"

\* isSafeId without the length limit.
isSafeId_NoLengthLimit(value) ==
  /\ value.t = "string"
  /\ Len(CharsOf(value.s)) > 0
  /\ SAFE_ID_REGEX_test(value.s)

\* isSafeId without the character class.
isSafeId_NoRegex(value) ==
  /\ value.t = "string"
  /\ Len(CharsOf(value.s)) > 0
  /\ Len(CharsOf(value.s)) <= MAX_ID_LENGTH

isSafeId(value) ==
  /\ value.t = "string"
  /\ Len(CharsOf(value.s)) > 0
  /\ Len(CharsOf(value.s)) <= MAX_ID_LENGTH
  /\ SAFE_ID_REGEX_test(value.s)

ValidationError(code, message) == [ok |-> FALSE, code |-> code, message |-> message]

ValidatedValue(payload) ==
  [remId |-> Get(payload, "remId").s,
   strength |-> Get(payload, "strength").s,
   userId |-> Get(payload, "userId").s,
   sourceClientId |-> Get(payload, "sourceClientId").s,
   sentAt |-> IF Get(payload, "sentAt").t = "undefined" THEN Null
              ELSE Some(Get(payload, "sentAt").s)]

\* The remId tested before the keys.
validateUpdatePayload_FieldsBeforeKeys(payload) ==
  IF ~isPlainObject(payload)
    THEN ValidationError("E_INVALID_PAYLOAD", "Payload must be a plain object")
  ELSE IF ~isSafeId(Get(payload, "remId"))
    THEN ValidationError("E_INVALID_FIELD", "Invalid remId")
  ELSE IF \E key \in DOMAIN payload.f : key \notin ALLOWED_UPDATE_KEYS
    THEN ValidationError("E_INVALID_PAYLOAD", "Unknown payload field")
  ELSE IF Get(payload, "strength") # JStr("strong") /\ Get(payload, "strength") # JStr("weak")
    THEN ValidationError("E_INVALID_FIELD", "Invalid strength")
  ELSE IF ~isSafeId(Get(payload, "userId"))
    THEN ValidationError("E_INVALID_FIELD", "Invalid userId")
  ELSE IF ~isSafeId(Get(payload, "sourceClientId"))
    THEN ValidationError("E_INVALID_FIELD", "Invalid sourceClientId")
  ELSE IF /\ Get(payload, "sentAt").t # "undefined"
          /\ (Get(payload, "sentAt").t # "string" \/ IsNull(DateParse(Get(payload, "sentAt").s)))
    THEN ValidationError("E_INVALID_FIELD", "Invalid sentAt")
  ELSE [ok |-> TRUE, value |-> ValidatedValue(payload)]

validateUpdatePayload(payload) ==
  IF ~isPlainObject(payload)
    THEN ValidationError("E_INVALID_PAYLOAD", "Payload must be a plain object")
  ELSE IF \E key \in DOMAIN payload.f : key \notin ALLOWED_UPDATE_KEYS
    THEN ValidationError("E_INVALID_PAYLOAD", "Unknown payload field")
  ELSE IF ~isSafeId(Get(payload, "remId"))
    THEN ValidationError("E_INVALID_FIELD", "Invalid remId")
  ELSE IF Get(payload, "strength") # JStr("strong") /\ Get(payload, "strength") # JStr("weak")
    THEN ValidationError("E_INVALID_FIELD", "Invalid strength")
  ELSE IF ~isSafeId(Get(payload, "userId"))
    THEN ValidationError("E_INVALID_FIELD", "Invalid userId")
  ELSE IF ~isSafeId(Get(payload, "sourceClientId"))
    THEN ValidationError("E_INVALID_FIELD", "Invalid sourceClientId")
  ELSE IF /\ Get(payload, "sentAt").t # "undefined"
          /\ (Get(payload, "sentAt").t # "string" \/ IsNull(DateParse(Get(payload, "sentAt").s)))
    THEN ValidationError("E_INVALID_FIELD", "Invalid sentAt")
  ELSE [ok |-> TRUE, value |-> ValidatedValue(payload)]


(***************************************************************************)
(* Tenant state and timestamps.                                            *)
(***************************************************************************)
makeEmptyState == [remId |-> Null, strength |-> Null, updatedAt |-> Null, sourceClientId |-> Null]

\* new Date(ms).toISOString(): the instant to the millisecond, as a tagged
\* value; FromISOString reads the milliseconds back.
ToISOString(ms) == [iso |-> ms]
FromISOString(isoValue) == isoValue.iso

(***************************************************************************)
(* Inputs of the environment.                                              *)
(***************************************************************************)
UserIds == {"u1", "u2"}
ConnIds == 1..MaxConns
ReqIds == 1..MaxRequests
ChunkSizes == {500000}
TickSteps == {1, INACTIVITY_TTL_MS}

Fields(remId, strength, userId, sourceClientId) ==
  [k \in {"remId", "strength", "userId", "sourceClientId"} |->
     CASE k = "remId" -> remId
       [] k = "strength" -> strength
       [] k = "userId" -> userId
       [] k = "sourceClientId" -> sourceClientId]

WithField(fields, key, value) ==
  [k \in DOMAIN fields \cup {key} |-> IF k = key THEN value ELSE fields[k]]

WithoutField(fields, key) == [k \in DOMAIN fields \ {key} |-> fields[k]]

BasePayload == Fields(JStr("r1"), JStr("strong"), JStr("u1"), JStr("d1"))

\* Valid updates: two publishers of tenant u1 (one claiming the later
\* sentAt), and a publisher of tenant u2 sharing a device id with u1.
ValidPayloads ==
  {JObj(WithField(BasePayload, "sentAt", JStr("2024-01-02T00:00:00.000Z"))),
   JObj(WithField(Fields(JStr("r2"), JStr("weak"), JStr("u1"), JStr("d2")),
                  "sentAt", JStr("2024-01-01T00:00:00.000Z"))),
   JObj(Fields(JStr("r2"), JStr("strong"), JStr("u2"), JStr("d1")))}

\* Bodies that are JSON but not a valid update, one for each rule of the
\* validator.
InvalidPayloads ==
  {JObj(EmptyFields), JArray,
   JObj(WithField(WithField(BasePayload, "remId", JStr("a b")), "extra", JStr("x"))),
   JObj(WithField(BasePayload, "remId", JStr(LongId))),
   JObj(WithField(BasePayload, "strength", JStr("r1"))),
   JObj(WithField(BasePayload, "userId", JStr("a/b"))),
   JObj(WithField(BasePayload, "sourceClientId", JStr(""))),
   JObj(WithField(BasePayload, "sentAt", JStr("yesterday")))}

SyntaxError == JPrimitive("syntaxerror")

Payloads == ValidPayloads \cup InvalidPayloads

\* What JSON.parse makes of a body of the given length: an empty body is
\* read as {}, any other body is whatever the publisher wrote.
BodyParses(bodyLength) ==
  IF bodyLength = 0 THEN {JObj(EmptyFields)} ELSE Payloads \cup {SyntaxError}

\* The userId query parameter of /state and /ws: missing, or a string.
QueryUserIds == {Null, Some("u1"), Some("u2"), Some("a b")}
QueryValue(q) == IF IsNull(q) THEN JNull ELSE JStr(Val(q))

(***************************************************************************)
(* State of the relay process.                                             *)
(***************************************************************************)
VARIABLES
  steps,                              \* event-loop steps taken so far
  now,                                \* Date.now(), ms since the process started
  latestStateByUserId,                \* Map userId -> TenantState
  latestStateLastTouchedAtByUserId,   \* Map userId -> ms
  activeClients,                      \* Map sourceClientId -> ClientActivity
  clients,                            \* Set of registered WebSocket connections
  ws,                                 \* the WebSocket objects, by connection id
  sent,                               \* messages handed to ws.send, per connection
  metrics,                            \* counters
  requests,                           \* POST /update requests and their body streams
  response,                           \* the HTTP response written by the step that just ran, if any
  accepted,                           \* history: accepted updates, in the order applied
  liveUpdate,                         \* history: per tenant, the last accepted update not expired since
  sweeps,                             \* history: heartbeat sweeps that visited a connection since its last pong
  variant,                            \* which relay program the process runs: "multi" or "single"
  single,                             \* the state of the single-tenant relay (src/server/index.js)
  call,                               \* a function of the relay called on its own: name, argument, result
  plugin,                             \* the fields of the plugin's sync engine on one device
  world                               \* around the plugin: its pending awaits and timers, and history

relayVars ==
  <<latestStateByUserId, latestStateLastTouchedAtByUserId, activeClients, clients, ws, sent,
    metrics, requests, response, accepted, liveUpdate, sweeps>>

vars == <<steps, now, variant, relayVars, single, call, plugin, world>>

NoWs == [userId |-> Null, isAlive |-> FALSE, readyState |-> "NONE", registered |-> FALSE,
         terminated |-> FALSE, closeCode |-> 0, joinedAt |-> 0]

NoRequest == [phase |-> "idle", body |-> 0, settled |-> FALSE, nResponses |-> 0]

NoResponse == [kind |-> "none"]
StateResponse(query, status, body) ==
  [kind |-> "state", query |-> query, status |-> status, at |-> now, body |-> body]
UpdateResponse(rid, status, body) ==
  [kind |-> "update", rid |-> rid, status |-> status, at |-> now, body |-> body]

EmptyMap == [k \in {} |-> 0]

Variants == {"multi", "single"}

\* The single-tenant relay after its module was loaded: one global state
\* object, one touch stamp, no tenant anywhere.
single_NoWs == [isAlive |-> FALSE, readyState |-> "NONE", registered |-> FALSE, terminated |-> FALSE]

single_Start ==
  [latestState |-> makeEmptyState,
   latestStateLastTouchedAt |-> Null,
   activeClients |-> EmptyMap,
   clients |-> {},
   ws |-> [c \in ConnIds |-> single_NoWs],
   sent |-> [c \in ConnIds |-> <<>>],
   metrics |-> [httpUpdateRequestsTotal |-> 0, httpUpdateAcceptedTotal |-> 0,
                httpUpdateRejectedTotal |-> 0, wsConnectionsTotal |-> 0, wsErrorsTotal |-> 0,
                wsTerminatedStaleTotal |-> 0, wsBroadcastMessagesTotal |-> 0,
                wsBroadcastRecipientsTotal |-> 0, memoryClientsPrunedTotal |-> 0,
                memoryLatestStateClearedTotal |-> 0],
   requests |-> [r \in ReqIds |-> NoRequest],
   response |-> NoResponse,
   sweeps |-> [c \in ConnIds |-> 0]]

NoCall == [fn |-> "none"]

(***************************************************************************)
(* The plugin on one device.  `plugin` holds the fields of PageSyncRuntime *)
(* (the refs of the hook usePageSyncEngine have the same names); `world`   *)
(* holds what the event loop keeps for it: the async functions suspended   *)
(* at an await, the timers no field remembers, the device's storage, and   *)
(* the history the properties read.                                        *)
(***************************************************************************)
\* new PageSyncRuntime(plugin): the field initialisers.
NotActivated ==
  [config |-> Null,
   runtimeState |-> "off",
   connectionState |-> "inactive",
   ws |-> Null,
   reconnectTimer |-> Null,
   reconnectAttempt |-> 0,
   reconnectGeneration |-> 0,
   inactivityTimer |-> Null,
   isApplyingRemoteNav |-> FALSE,
   lastNav |-> [remId |-> Null, at |-> 0],
   invalidPayloadTimestamps |-> <<>>]

NoWorld ==
  [activated |-> FALSE,         \* init() has loaded the configuration
   tasks |-> {},                \* async functions suspended at an await
   navTimers |-> {},            \* due times of the timers set by applyRemoteNavigation
   navFinishedAt |-> Null,      \* history: when the last remote navigation finished
   echoIdled |-> FALSE,         \* history: the event of a remote navigation moved sync to idle
   stopped |-> FALSE,           \* history: stop() has run and start() was not called since
   epoch |-> 0,                 \* history: the stops and starts of a client so far
   reconnectTimeouts |-> 0,     \* pending timeouts set by scheduleClientReconnect
   inactivityTimeouts |-> 0,    \* pending timeouts set by resetInactivityTimer
   armed |-> Null,              \* history: when the last reconnect timer was set, and its number
   consecutive |-> 0,           \* history: reconnects scheduled since a socket opened or sync stopped
   staleAttempt |-> FALSE,      \* history: a timer set before a stop or a start tried to connect
   inactiveStopAt |-> Null,     \* history: when the inactivity timer last stopped the host
   attempts |-> 0,              \* history: calls of new WebSocket
   reconnect |-> "none",        \* history: "owed" from the close of a client's socket to the next
                                \* connection attempt, "dropped" if sync stopped in between
   toasts |-> 0,                \* history: toasts shown for an invalid payload
   invalidAt |-> <<>>,          \* history: arrival times of the messages the handler did not
                                \* recognize, since a socket opened or sync stopped
   updateOkAt |-> Null,         \* history: when the last update of the host was accepted
   settled |-> [at |-> "", outcome |-> "", n |-> 0],   \* history: the last sendUpdate() that
                                \* settled, how, and how many have
   storage |-> [deviceId |-> Null, writes |-> 0],   \* plugin.storage, and history: setLocal calls
   loads |-> {},                \* the calls of ensureDeviceId in flight, each at its await
   returned |-> {}]             \* history: the ids ensureDeviceId returned, and to whom

Init ==
  /\ steps = 0
  /\ variant \in Variants
  /\ call = NoCall
  /\ plugin = NotActivated
  /\ world = NoWorld
  /\ single = single_Start
  /\ now = 0
  /\ latestStateByUserId = EmptyMap
  /\ latestStateLastTouchedAtByUserId = EmptyMap
  /\ activeClients = EmptyMap
  /\ clients = {}
  /\ ws = [c \in ConnIds |-> NoWs]
  /\ sent = [c \in ConnIds |-> <<>>]
  /\ metrics = [httpUpdateRequestsTotal |-> 0, httpUpdateAcceptedTotal |-> 0,
                httpUpdateRejectedTotal |-> 0, wsConnectionsTotal |-> 0,
                wsRejectedInvalidUserTotal |-> 0, wsErrorsTotal |-> 0,
                wsTerminatedStaleTotal |-> 0, wsBroadcastMessagesTotal |-> 0,
                wsBroadcastRecipientsTotal |-> 0, memoryClientsPrunedTotal |-> 0,
                memoryLatestStateClearedTotal |-> 0]
  /\ requests = [r \in ReqIds |-> NoRequest]
  /\ response = NoResponse
  /\ accepted = <<>>
  /\ liveUpdate = [u \in UserIds |-> Null]
  /\ sweeps = [c \in ConnIds |-> 0]

(***************************************************************************)
(* Map helpers (JavaScript Map set / delete / get).                        *)
(***************************************************************************)
MapSet(map, key, value) == [k \in DOMAIN map \cup {key} |-> IF k = key THEN value ELSE map[k]]
MapDeleteAll(map, keys) == [k \in DOMAIN map \ keys |-> map[k]]

getStateForUser(userId) ==
  IF userId \in DOMAIN latestStateByUserId THEN latestStateByUserId[userId] ELSE makeEmptyState

(***************************************************************************)
(* The clock.  Date.now() is taken to be non-decreasing.                   *)
(***************************************************************************)
\* Every action is one event-loop step; the model explores MaxSteps of them.
Step ==
  /\ steps < MaxSteps
  /\ steps' = steps + 1

Tick ==
  /\ Step
  /\ \E d \in TickSteps : now' = now + d
  /\ response' = NoResponse
  /\ UNCHANGED <<latestStateByUserId, latestStateLastTouchedAtByUserId, activeClients, clients, ws,
                 sent, metrics, requests, accepted, liveUpdate, sweeps>>


(***************************************************************************)
(* Garbage collector.                                                      *)
(***************************************************************************)
\* The age computed with its operands swapped.
IsInactive_Reversed(nowMs, stamp) == stamp - nowMs > INACTIVITY_TTL_MS

\* An entry counted as inactive when its age reaches the TTL.
IsInactive_AtTtl(nowMs, stamp) == nowMs - stamp >= INACTIVITY_TTL_MS

IsInactive(nowMs, stamp) == nowMs - stamp > INACTIVITY_TTL_MS

PrunedClients(nowMs) ==
  {clientId \in DOMAIN activeClients : IsInactive(nowMs, activeClients[clientId].lastSeenAt)}

ExpiredUsers(nowMs) ==
  {userId \in DOMAIN latestStateLastTouchedAtByUserId :
     IsInactive(nowMs, latestStateLastTouchedAtByUserId[userId])}

\* The clear that forgets the state and keeps the last-touched record.
clearLatestStateForUser_KeepsTouched(userIds) ==
  /\ latestStateByUserId' = MapDeleteAll(latestStateByUserId, userIds)
  /\ UNCHANGED latestStateLastTouchedAtByUserId
  /\ liveUpdate' = [u \in UserIds |-> IF u \in userIds THEN Null ELSE liveUpdate[u]]

\* clearLatestStateForUser, for every user the sweep found expired.
clearLatestStateForUser(userIds) ==
  /\ latestStateByUserId' = MapDeleteAll(latestStateByUserId, userIds)
  /\ latestStateLastTouchedAtByUserId' = MapDeleteAll(latestStateLastTouchedAtByUserId, userIds)
  /\ liveUpdate' = [u \in UserIds |-> IF u \in userIds THEN Null ELSE liveUpdate[u]]

cleanupInactiveMemory(nowMs) ==
  /\ activeClients' = MapDeleteAll(activeClients, PrunedClients(nowMs))
  /\ clearLatestStateForUser(ExpiredUsers(nowMs))
  /\ metrics' = [metrics EXCEPT
       !.memoryClientsPrunedTotal = @ + Cardinality(PrunedClients(nowMs)),
       !.memoryLatestStateClearedTotal = @ + Cardinality(ExpiredUsers(nowMs))]

\* The periodic sweep telling the connections of an expired tenant.
CleanupInterval_NotifiesExpired ==
  /\ Step
  /\ cleanupInactiveMemory(now)
  /\ response' = NoResponse
  /\ sent' = [c \in ConnIds |->
       IF /\ c \in clients
          /\ ws[c].readyState = "OPEN"
          /\ \E userId \in ExpiredUsers(now) : ws[c].userId = Some(userId)
         THEN Append(sent[c], [type |-> "page_update", remId |-> Null, strength |-> Null,
                               updatedAt |-> Null, userId |-> Val(ws[c].userId),
                               sourceClientId |-> Null])
         ELSE sent[c]]
  /\ UNCHANGED <<now, clients, ws, requests, accepted, sweeps>>

\* setInterval(cleanupInactiveMemory, CLEANUP_INTERVAL_MS)
CleanupInterval ==
  /\ Step
  /\ cleanupInactiveMemory(now)
  /\ response' = NoResponse
  /\ UNCHANGED <<now, clients, ws, sent, requests, accepted, sweeps>>

(***************************************************************************)
(* GET /state                                                              *)
(***************************************************************************)
ErrorBody(code, message) == [ok |-> FALSE, error |-> message, code |-> code]

\* The read storing an empty state for a tenant it does not find.
GetState_CreatesEntry(query) ==
  /\ Step
  /\ IF ~isSafeId(QueryValue(query))
       THEN /\ response' = StateResponse(query, 400,
                 ErrorBody("E_INVALID_QUERY", "Missing or invalid userId query parameter"))
            /\ UNCHANGED <<activeClients, latestStateByUserId, latestStateLastTouchedAtByUserId,
                           liveUpdate, metrics>>
       ELSE /\ activeClients' = MapDeleteAll(activeClients, PrunedClients(now))
            /\ latestStateByUserId' =
                 [userId \in (DOMAIN latestStateByUserId \ ExpiredUsers(now)) \cup {Val(query)} |->
                    IF userId \in DOMAIN latestStateByUserId \ ExpiredUsers(now)
                      THEN latestStateByUserId[userId] ELSE makeEmptyState]
            /\ latestStateLastTouchedAtByUserId' =
                 MapDeleteAll(latestStateLastTouchedAtByUserId, ExpiredUsers(now))
            /\ liveUpdate' = [u \in UserIds |->
                                IF u \in ExpiredUsers(now) THEN Null ELSE liveUpdate[u]]
            /\ metrics' = [metrics EXCEPT
                 !.memoryClientsPrunedTotal = @ + Cardinality(PrunedClients(now)),
                 !.memoryLatestStateClearedTotal = @ + Cardinality(ExpiredUsers(now))]
            /\ response' = StateResponse(query, 200, latestStateByUserId'[Val(query)])
  /\ UNCHANGED <<now, clients, ws, sent, requests, accepted, sweeps>>

GetState(query) ==
  /\ Step
  /\ IF ~isSafeId(QueryValue(query))
       THEN /\ response' = StateResponse(query, 400,
                 ErrorBody("E_INVALID_QUERY", "Missing or invalid userId query parameter"))
            /\ UNCHANGED <<activeClients, latestStateByUserId, latestStateLastTouchedAtByUserId,
                           liveUpdate, metrics>>
       ELSE /\ cleanupInactiveMemory(now)
            /\ response' = StateResponse(query, 200, getStateForUser(Val(query))')
  /\ UNCHANGED <<now, clients, ws, sent, requests, accepted, sweeps>>

(***************************************************************************)
(* Broadcast hub.                                                          *)
(***************************************************************************)
Falsy(x) == IsNull(x) \/ x = Some("")

\* The guard testing the remId only.
StateIncomplete_OnlyRemId(state) == Falsy(state.remId)

StateIncomplete(state) ==
  Falsy(state.remId) \/ Falsy(state.strength) \/ IsNull(state.updatedAt) \/ Falsy(state.sourceClientId)

\* The message built from the state stored before the update.
PageUpdateMessage_StoredBefore(userId, state) ==
  [type |-> "page_update", remId |-> getStateForUser(userId).remId,
   strength |-> getStateForUser(userId).strength, updatedAt |-> state.updatedAt,
   userId |-> userId, sourceClientId |-> getStateForUser(userId).sourceClientId]

PageUpdateMessage(userId, state) ==
  [type |-> "page_update", remId |-> state.remId, strength |-> state.strength,
   updatedAt |-> state.updatedAt, userId |-> userId, sourceClientId |-> state.sourceClientId]

\* The send loop without the readyState test.
BroadcastRecipients_AnyReadyState(userId) == {c \in clients : ws[c].userId = Some(userId)}

\* The connections the send loop reaches.
BroadcastRecipients(userId) ==
  {c \in clients : ws[c].readyState = "OPEN" /\ ws[c].userId = Some(userId)}

\* broadcastPageUpdate: the logs of sent messages and the counters after it,
\* given the counters before it.
broadcastPageUpdate(userId, state, metricsBefore) ==
  IF StateIncomplete(state)
    THEN [sent |-> sent, metrics |-> metricsBefore]
    ELSE [sent |-> [c \in ConnIds |->
                      IF c \in BroadcastRecipients(userId)
                        THEN Append(sent[c], PageUpdateMessage(userId, state))
                        ELSE sent[c]],
          metrics |-> [metricsBefore EXCEPT
             !.wsBroadcastMessagesTotal = @ + 1,
             !.wsBroadcastRecipientsTotal = @ + Cardinality(BroadcastRecipients(userId))]]

(***************************************************************************)
(* POST /update                                                            *)
(***************************************************************************)
\* The request arrives: the handler counts it and starts reading the body.
UpdateStart(rid) ==
  /\ Step
  /\ requests[rid].phase = "idle"
  /\ \A r \in ReqIds : r < rid => requests[r].phase # "idle"
  /\ requests' = [requests EXCEPT ![rid].phase = "reading"]
  /\ metrics' = [metrics EXCEPT !.httpUpdateRequestsTotal = @ + 1]
  /\ response' = NoResponse
  /\ UNCHANGED <<now, latestStateByUserId, latestStateLastTouchedAtByUserId, activeClients, clients,
                 ws, sent, accepted, liveUpdate, sweeps>>

StatusOfCode(code) ==
  IF code \in {"E_INVALID_JSON", "E_INVALID_PAYLOAD", "E_INVALID_FIELD"} THEN 400
  ELSE IF code = "E_BODY_TOO_LARGE" THEN 413
  ELSE 500

\* The catch block: the promise of parseRequestBody was rejected with `code`.
UpdateCatch(rid, code, message, phase, body) ==
  /\ metrics' = [metrics EXCEPT !.httpUpdateRejectedTotal = @ + 1]
  /\ response' = UpdateResponse(rid, StatusOfCode(code), ErrorBody(code, message))
  /\ requests' = [requests EXCEPT ![rid] =
       [phase |-> phase, body |-> body, settled |-> TRUE, nResponses |-> @.nResponses + 1]]
  /\ UNCHANGED <<latestStateByUserId, latestStateLastTouchedAtByUserId, activeClients, sent,
                 accepted, liveUpdate>>

\* req.on('data'): the chunk is appended; the promise is rejected when the
\* body is over the limit (a settled promise ignores further rejections).
UpdateData(rid, size) ==
  /\ Step
  /\ requests[rid].phase = "reading"
  /\ LET body == requests[rid].body + size IN
       IF body > MAX_BODY_BYTES /\ ~requests[rid].settled
         THEN UpdateCatch(rid, "E_BODY_TOO_LARGE", "Body too large", "reading", body)
         ELSE /\ requests' = [requests EXCEPT ![rid].body = body]
              /\ response' = NoResponse
              /\ UNCHANGED <<latestStateByUserId, latestStateLastTouchedAtByUserId, activeClients,
                             sent, metrics, accepted, liveUpdate>>
  /\ UNCHANGED <<now, clients, ws, sweeps>>

\* req.on('error')
UpdateStreamError(rid) ==
  /\ Step
  /\ requests[rid].phase = "reading"
  /\ IF ~requests[rid].settled
       THEN UpdateCatch(rid, "E_INTERNAL", "Request stream error", "errored", requests[rid].body)
       ELSE /\ requests' = [requests EXCEPT ![rid].phase = "errored"]
            /\ response' = NoResponse
            /\ UNCHANGED <<latestStateByUserId, latestStateLastTouchedAtByUserId, activeClients,
                           sent, metrics, accepted, liveUpdate>>
  /\ UNCHANGED <<now, clients, ws, sweeps>>

\* An update that claims an older sentAt than the update stored before it
\* is dropped: the stored state stays.
NextState_NewerSentAtWins(update, nowIso) ==
  IF /\ update.userId \in DOMAIN latestStateByUserId
     /\ ~IsNull(liveUpdate[update.userId])
     /\ ~IsNull(update.sentAt)
     /\ ~IsNull(accepted[Val(liveUpdate[update.userId])].sentAt)
     /\ Val(DateParse(Val(update.sentAt)))
          < Val(DateParse(Val(accepted[Val(liveUpdate[update.userId])].sentAt)))
    THEN latestStateByUserId[update.userId]
    ELSE [remId |-> Some(update.remId), strength |-> Some(update.strength),
          updatedAt |-> Some(nowIso), sourceClientId |-> Some(update.sourceClientId)]

\* An update merged into the stored state: the first publisher is kept.
NextState_KeepsSource(update, nowIso) ==
  [remId |-> Some(update.remId), strength |-> Some(update.strength),
   updatedAt |-> Some(nowIso),
   sourceClientId |-> IF update.userId \in DOMAIN latestStateByUserId
                        THEN latestStateByUserId[update.userId].sourceClientId
                        ELSE Some(update.sourceClientId)]

\* updatedAt taken from the publisher's sentAt when it sends one.
NextState_TrustsSentAt(update, nowIso) ==
  [remId |-> Some(update.remId), strength |-> Some(update.strength),
   updatedAt |-> IF IsNull(update.sentAt) THEN Some(nowIso)
                 ELSE Some(ToISOString(Val(DateParse(Val(update.sentAt))))),
   sourceClientId |-> Some(update.sourceClientId)]

NextState(update, nowIso) ==
  [remId |-> Some(update.remId), strength |-> Some(update.strength),
   updatedAt |-> Some(nowIso), sourceClientId |-> Some(update.sourceClientId)]

\* The activity stamped with the time of the device's previous update
\* (the time of this one when it is the device's first).
ClientActivity_PreviousSeen(update, nowMs) ==
  [userId |-> update.userId,
   lastSeenAt |-> IF update.sourceClientId \in DOMAIN activeClients
                    THEN activeClients[update.sourceClientId].lastSeenAt ELSE nowMs,
   lastRemId |-> update.remId, lastStrength |-> update.strength]

ClientActivity(update, nowMs) ==
  [userId |-> update.userId, lastSeenAt |-> nowMs, lastRemId |-> update.remId,
   lastStrength |-> update.strength]

\* One key for every tenant.
StoreKey_Shared(update) == "u1"

\* The tenant whose state an update is stored under.
StoreKey(update) == update.userId

\* The handler after validation succeeded.
UpdateAccept(rid, update) ==
  LET nowMs == now
      nextState == NextState(update, ToISOString(nowMs))
  IN /\ latestStateByUserId' = MapSet(latestStateByUserId, StoreKey(update), nextState)
     /\ latestStateLastTouchedAtByUserId' =
          MapSet(latestStateLastTouchedAtByUserId, StoreKey(update), nowMs)
     /\ activeClients' = MapSet(activeClients, update.sourceClientId, ClientActivity(update, nowMs))
     /\ sent' = broadcastPageUpdate(update.userId, nextState,
                   [metrics EXCEPT !.httpUpdateAcceptedTotal = @ + 1]).sent
     /\ metrics' = broadcastPageUpdate(update.userId, nextState,
                      [metrics EXCEPT !.httpUpdateAcceptedTotal = @ + 1]).metrics
     /\ response' = UpdateResponse(rid, 200, [ok |-> TRUE, state |-> nextState])
     /\ requests' = [requests EXCEPT ![rid] =
          [@ EXCEPT !.phase = "ended", !.settled = TRUE, !.nResponses = @ + 1]]
     /\ accepted' = Append(accepted,
          [rid |-> rid, userId |-> update.userId, remId |-> update.remId,
           strength |-> update.strength, sourceClientId |-> update.sourceClientId,
           sentAt |-> update.sentAt, at |-> nowMs, updatedAt |-> nextState.updatedAt])
     /\ liveUpdate' = [liveUpdate EXCEPT ![update.userId] = Some(Len(accepted) + 1)]

\* The handler after validation failed.
UpdateInvalid(rid, validated) ==
  /\ metrics' = [metrics EXCEPT !.httpUpdateRejectedTotal = @ + 1]
  /\ response' = UpdateResponse(rid, 400, ErrorBody(validated.code, validated.message))
  /\ requests' = [requests EXCEPT ![rid] =
       [@ EXCEPT !.phase = "ended", !.settled = TRUE, !.nResponses = @ + 1]]
  /\ UNCHANGED <<latestStateByUserId, latestStateLastTouchedAtByUserId, activeClients, sent,
                 accepted, liveUpdate>>

\* The body handled at its end whether or not the request was answered.
UpdateEnd_IgnoresSettled(rid, payload) ==
  /\ Step
  /\ requests[rid].phase = "reading"
  /\ payload \in BodyParses(requests[rid].body)
  /\ IF payload = SyntaxError
       THEN UpdateCatch(rid, "E_INVALID_JSON", "Invalid JSON body", "ended", requests[rid].body)
     ELSE IF ~validateUpdatePayload(payload).ok
       THEN UpdateInvalid(rid, validateUpdatePayload(payload))
     ELSE UpdateAccept(rid, validateUpdatePayload(payload).value)
  /\ UNCHANGED <<now, clients, ws, sweeps>>

\* req.on('end'): the body is parsed, and the handler resumes in the same
\* event-loop step (validation, store, broadcast, response).
UpdateEnd(rid, payload) ==
  /\ Step
  /\ requests[rid].phase = "reading"
  /\ payload \in BodyParses(requests[rid].body)
  /\ IF requests[rid].settled
       THEN /\ requests' = [requests EXCEPT ![rid].phase = "ended"]
            /\ response' = NoResponse
            /\ UNCHANGED <<latestStateByUserId, latestStateLastTouchedAtByUserId, activeClients,
                           sent, metrics, accepted, liveUpdate>>
     ELSE IF payload = SyntaxError
       THEN UpdateCatch(rid, "E_INVALID_JSON", "Invalid JSON body", "ended", requests[rid].body)
     ELSE IF ~validateUpdatePayload(payload).ok
       THEN UpdateInvalid(rid, validateUpdatePayload(payload))
     ELSE UpdateAccept(rid, validateUpdatePayload(payload).value)
  /\ UNCHANGED <<now, clients, ws, sweeps>>


(***************************************************************************)
(* WebSocket gateway.                                                      *)
(***************************************************************************)
\* The greeting sent as a page_update without a page.
WelcomeMessage_AsPageUpdate(nowMs) ==
  [type |-> "page_update", remId |-> Null, strength |-> Null,
   updatedAt |-> Some(ToISOString(nowMs)), sourceClientId |-> Null]

WelcomeMessage(nowMs) == [type |-> "welcome", now |-> ToISOString(nowMs)]

\* wss.on('connection'): connection ids are handed out in order.
WsConnection(c, query) ==
  /\ Step
  /\ ws[c].readyState = "NONE"
  /\ \A d \in ConnIds : d < c => ws[d].readyState # "NONE"
  /\ IF ~isSafeId(QueryValue(query))
       THEN /\ metrics' = [metrics EXCEPT !.wsRejectedInvalidUserTotal = @ + 1]
            /\ ws' = [ws EXCEPT ![c] = [@ EXCEPT !.readyState = "CLOSING", !.closeCode = 1008]]
            /\ UNCHANGED <<clients, sent>>
       ELSE /\ ws' = [ws EXCEPT ![c] =
                 [userId |-> query, isAlive |-> TRUE, readyState |-> "OPEN", registered |-> TRUE,
                  terminated |-> FALSE, closeCode |-> 0, joinedAt |-> Len(accepted)]]
            /\ clients' = clients \cup {c}
            /\ metrics' = [metrics EXCEPT !.wsConnectionsTotal = @ + 1]
            /\ sent' = [sent EXCEPT ![c] = Append(@, WelcomeMessage(now))]
  /\ response' = NoResponse
  /\ UNCHANGED <<now, latestStateByUserId, latestStateLastTouchedAtByUserId, activeClients,
                 requests, accepted, liveUpdate, sweeps>>

\* ws.on('pong')
\* The pong handler leaving the flag as the last ping set it.
WsPong_LeavesFlag(c) ==
  /\ Step
  /\ ws[c].registered
  /\ ws[c].readyState \in {"OPEN", "CLOSING"}
  /\ ~ws[c].terminated
  /\ UNCHANGED ws
  /\ sweeps' = [sweeps EXCEPT ![c] = 0]
  /\ response' = NoResponse
  /\ UNCHANGED <<now, latestStateByUserId, latestStateLastTouchedAtByUserId, activeClients, clients,
                 sent, metrics, requests, accepted, liveUpdate>>

WsPong(c) ==
  /\ Step
  /\ ws[c].registered
  /\ ws[c].readyState \in {"OPEN", "CLOSING"}
  /\ ~ws[c].terminated
  /\ ws' = [ws EXCEPT ![c].isAlive = TRUE]
  /\ sweeps' = [sweeps EXCEPT ![c] = 0]
  /\ response' = NoResponse
  /\ UNCHANGED <<now, latestStateByUserId, latestStateLastTouchedAtByUserId, activeClients, clients,
                 sent, metrics, requests, accepted, liveUpdate>>

\* The closing handshake starts (a close frame arrives, or ws.close was
\* called): the socket leaves OPEN, its 'close' event has not fired yet.
WsClosing(c) ==
  /\ Step
  /\ ws[c].readyState = "OPEN"
  /\ ws' = [ws EXCEPT ![c].readyState = "CLOSING"]
  /\ response' = NoResponse
  /\ UNCHANGED <<now, latestStateByUserId, latestStateLastTouchedAtByUserId, activeClients, clients,
                 sent, metrics, requests, accepted, liveUpdate, sweeps>>

\* ws.on('close')
WsClose(c) ==
  /\ Step
  /\ ws[c].readyState \in {"OPEN", "CLOSING"}
  /\ ws' = [ws EXCEPT ![c].readyState = "CLOSED"]
  /\ clients' = IF ws[c].registered THEN clients \ {c} ELSE clients
  /\ response' = NoResponse
  /\ UNCHANGED <<now, latestStateByUserId, latestStateLastTouchedAtByUserId, activeClients,
                 sent, metrics, requests, accepted, liveUpdate, sweeps>>

\* ws.on('error'): the library leaves OPEN before it emits the event, and
\* emits 'close' later.
WsError(c) ==
  /\ Step
  /\ ws[c].registered
  /\ ws[c].readyState = "OPEN"
  /\ ws' = [ws EXCEPT ![c].readyState = "CLOSING"]
  /\ metrics' = [metrics EXCEPT !.wsErrorsTotal = @ + 1]
  /\ response' = NoResponse
  /\ UNCHANGED <<now, latestStateByUserId, latestStateLastTouchedAtByUserId, activeClients, clients,
                 sent, requests, accepted, liveUpdate, sweeps>>

\* Only sockets that already left OPEN count as stale.
IsStale_OnlyNotOpen(c) == ws[c].isAlive = FALSE /\ ws[c].readyState # "OPEN"

\* What the heartbeat does with a connection it visits.
IsStale(c) == ws[c].isAlive = FALSE

\* setInterval(..., 30000): the heartbeat sweep over the registry.
wsHealthInterval ==
  /\ Step
  /\ clients # {}
  /\ ws' = [c \in ConnIds |->
              IF c \notin clients THEN ws[c]
              ELSE IF IsStale(c)
                THEN [ws[c] EXCEPT !.terminated = TRUE,
                                   !.readyState = IF @ = "CLOSED" THEN @ ELSE "CLOSING"]
                ELSE [ws[c] EXCEPT !.isAlive = FALSE]]
  /\ clients' = {c \in clients : ~IsStale(c)}
  /\ metrics' = [metrics EXCEPT
       !.wsTerminatedStaleTotal = @ + Cardinality({c \in clients : IsStale(c)})]
  /\ sweeps' = [c \in ConnIds |-> IF c \in clients THEN sweeps[c] + 1 ELSE sweeps[c]]
  /\ response' = NoResponse
  /\ UNCHANGED <<now, latestStateByUserId, latestStateLastTouchedAtByUserId, activeClients,
                 sent, requests, accepted, liveUpdate>>

(***************************************************************************)
(* The single-tenant relay (src/server/index.js): the same server with one *)
(* global state object and no userId anywhere.  Its state is the record    *)
(* `single`; each operator below maps the record before a piece of code to *)
(* the record after it.                                                    *)
(***************************************************************************)
single_ALLOWED_UPDATE_KEYS == {"remId", "strength", "sourceClientId", "sentAt"}

single_ValidatedValue(payload) ==
  [remId |-> Get(payload, "remId").s,
   strength |-> Get(payload, "strength").s,
   sourceClientId |-> Get(payload, "sourceClientId").s,
   sentAt |-> IF Get(payload, "sentAt").t = "undefined" THEN Null
              ELSE Some(Get(payload, "sentAt").s)]

single_validateUpdatePayload(payload) ==
  IF ~isPlainObject(payload)
    THEN ValidationError("E_INVALID_PAYLOAD", "Payload must be a plain object")
  ELSE IF \E key \in DOMAIN payload.f : key \notin single_ALLOWED_UPDATE_KEYS
    THEN ValidationError("E_INVALID_PAYLOAD", "Unknown payload field")
  ELSE IF ~isSafeId(Get(payload, "remId"))
    THEN ValidationError("E_INVALID_FIELD", "Invalid remId")
  ELSE IF Get(payload, "strength") # JStr("strong") /\ Get(payload, "strength") # JStr("weak")
    THEN ValidationError("E_INVALID_FIELD", "Invalid strength")
  ELSE IF ~isSafeId(Get(payload, "sourceClientId"))
    THEN ValidationError("E_INVALID_FIELD", "Invalid sourceClientId")
  ELSE IF /\ Get(payload, "sentAt").t # "undefined"
          /\ (Get(payload, "sentAt").t # "string" \/ IsNull(DateParse(Get(payload, "sentAt").s)))
    THEN ValidationError("E_INVALID_FIELD", "Invalid sentAt")
  ELSE [ok |-> TRUE, value |-> single_ValidatedValue(payload)]

\* The bodies sent to this variant: those of the multi-tenant relay without
\* their userId, and one that still carries it.
single_Payloads ==
  {[p EXCEPT !.f = WithoutField(@, "userId")] : p \in Payloads} \cup {JObj(BasePayload)}

single_BodyParses(bodyLength) ==
  IF bodyLength = 0 THEN {JObj(EmptyFields)} ELSE single_Payloads \cup {SyntaxError}

\* The URLs asked of GET /state: with and without a query string.
single_Queries == {Null, Some("u1")}

\* What every step does to the response of the step before it.
single_Quiet(s) == [s EXCEPT !.response = NoResponse]

\* The reset that forgets the publisher.
clearLatestState_KeepsSource(s) ==
  [s EXCEPT !.latestState.remId = Null,
            !.latestState.strength = Null,
            !.latestState.updatedAt = Null,
            !.latestStateLastTouchedAt = Null,
            !.metrics.memoryLatestStateClearedTotal = @ + 1]

clearLatestState(s) ==
  [s EXCEPT !.latestState.remId = Null,
            !.latestState.strength = Null,
            !.latestState.updatedAt = Null,
            !.latestState.sourceClientId = Null,
            !.latestStateLastTouchedAt = Null,
            !.metrics.memoryLatestStateClearedTotal = @ + 1]

\* The state expiring when its age reaches the TTL.
isLatestStateExpired_AtTtl(s, nowMs) ==
  IF IsNull(s.latestStateLastTouchedAt) THEN FALSE
  ELSE nowMs - Val(s.latestStateLastTouchedAt) >= INACTIVITY_TTL_MS

isLatestStateExpired(s, nowMs) ==
  IF IsNull(s.latestStateLastTouchedAt) THEN FALSE
  ELSE IsInactive(nowMs, Val(s.latestStateLastTouchedAt))

single_PrunedClients(s, nowMs) ==
  {clientId \in DOMAIN s.activeClients : IsInactive(nowMs, s.activeClients[clientId].lastSeenAt)}

single_cleanupInactiveMemory(s, nowMs) ==
  LET pruned == [s EXCEPT
        !.activeClients = MapDeleteAll(@, single_PrunedClients(s, nowMs)),
        !.metrics.memoryClientsPrunedTotal = @ + Cardinality(single_PrunedClients(s, nowMs))]
  IN IF isLatestStateExpired(pruned, nowMs) THEN clearLatestState(pruned) ELSE pruned

single_PageUpdateMessage(state) ==
  [type |-> "page_update", remId |-> state.remId, strength |-> state.strength,
   updatedAt |-> state.updatedAt, sourceClientId |-> state.sourceClientId]

single_BroadcastRecipients(s) == {c \in s.clients : s.ws[c].readyState = "OPEN"}

\* broadcastPageUpdate(): it reads the global latestState.
single_broadcastPageUpdate(s) ==
  IF StateIncomplete(s.latestState) THEN s
  ELSE [s EXCEPT
    !.sent = [c \in ConnIds |->
                IF c \in single_BroadcastRecipients(s)
                  THEN Append(s.sent[c], single_PageUpdateMessage(s.latestState))
                  ELSE s.sent[c]],
    !.metrics.wsBroadcastMessagesTotal = @ + 1,
    !.metrics.wsBroadcastRecipientsTotal = @ + Cardinality(single_BroadcastRecipients(s))]

single_Tick ==
  /\ Step
  /\ \E d \in TickSteps : now' = now + d
  /\ single' = single_Quiet(single)

single_CleanupInterval ==
  /\ Step
  /\ single' = single_cleanupInactiveMemory(single_Quiet(single), now)
  /\ UNCHANGED now

\* GET /state is matched on the whole URL: with a query string the request
\* falls through to the 404 of the router.
single_GetState(query) ==
  /\ Step
  /\ single' =
       IF ~IsNull(query)
         THEN [single EXCEPT !.response =
                 StateResponse(query, 404, ErrorBody("E_NOT_FOUND", "Not found"))]
         ELSE LET cleaned == single_cleanupInactiveMemory(single, now)
              IN [cleaned EXCEPT !.response = StateResponse(query, 200, cleaned.latestState)]
  /\ UNCHANGED now

single_UpdateStart(rid) ==
  /\ Step
  /\ single.requests[rid].phase = "idle"
  /\ \A r \in ReqIds : r < rid => single.requests[r].phase # "idle"
  /\ single' = [single_Quiet(single) EXCEPT !.requests[rid].phase = "reading",
                                            !.metrics.httpUpdateRequestsTotal = @ + 1]
  /\ UNCHANGED now

single_UpdateCatch(s, rid, code, message, phase, body) ==
  [s EXCEPT !.metrics.httpUpdateRejectedTotal = @ + 1,
            !.response = UpdateResponse(rid, StatusOfCode(code), ErrorBody(code, message)),
            !.requests[rid] = [phase |-> phase, body |-> body, settled |-> TRUE,
                               nResponses |-> @.nResponses + 1]]

single_UpdateData(rid, size) ==
  /\ Step
  /\ single.requests[rid].phase = "reading"
  /\ single' =
       LET body == single.requests[rid].body + size IN
         IF body > MAX_BODY_BYTES /\ ~single.requests[rid].settled
           THEN single_UpdateCatch(single, rid, "E_BODY_TOO_LARGE", "Body too large", "reading", body)
           ELSE [single_Quiet(single) EXCEPT !.requests[rid].body = body]
  /\ UNCHANGED now

single_UpdateStreamError(rid) ==
  /\ Step
  /\ single.requests[rid].phase = "reading"
  /\ single' =
       IF ~single.requests[rid].settled
         THEN single_UpdateCatch(single, rid, "E_INTERNAL", "Request stream error", "errored",
                                 single.requests[rid].body)
         ELSE [single_Quiet(single) EXCEPT !.requests[rid].phase = "errored"]
  /\ UNCHANGED now

single_ClientActivity(update, nowMs) ==
  [lastSeenAt |-> nowMs, lastRemId |-> update.remId, lastStrength |-> update.strength]

\* The fields of the global state object are assigned one by one, in one
\* synchronous block.
single_UpdateAccept(s, rid, update, nowMs) ==
  LET stored == [s EXCEPT
        !.metrics.httpUpdateAcceptedTotal = @ + 1,
        !.latestState.remId = Some(update.remId),
        !.latestState.strength = Some(update.strength),
        !.latestState.updatedAt = Some(ToISOString(nowMs)),
        !.latestState.sourceClientId = Some(update.sourceClientId),
        !.latestStateLastTouchedAt = Some(nowMs),
        !.activeClients = MapSet(@, update.sourceClientId, single_ClientActivity(update, nowMs))]
      broadcast == single_broadcastPageUpdate(stored)
  IN [broadcast EXCEPT
        !.response = UpdateResponse(rid, 200, [ok |-> TRUE, state |-> broadcast.latestState]),
        !.requests[rid] = [@ EXCEPT !.phase = "ended", !.settled = TRUE, !.nResponses = @ + 1]]

single_UpdateInvalid(s, rid, validated) ==
  [s EXCEPT !.metrics.httpUpdateRejectedTotal = @ + 1,
            !.response = UpdateResponse(rid, 400, ErrorBody(validated.code, validated.message)),
            !.requests[rid] = [@ EXCEPT !.phase = "ended", !.settled = TRUE,
                                        !.nResponses = @ + 1]]

single_UpdateEnd(rid, payload) ==
  /\ Step
  /\ single.requests[rid].phase = "reading"
  /\ payload \in single_BodyParses(single.requests[rid].body)
  /\ single' =
       IF single.requests[rid].settled
         THEN [single_Quiet(single) EXCEPT !.requests[rid].phase = "ended"]
       ELSE IF payload = SyntaxError
         THEN single_UpdateCatch(single, rid, "E_INVALID_JSON", "Invalid JSON body", "ended",
                                 single.requests[rid].body)
       ELSE IF ~single_validateUpdatePayload(payload).ok
         THEN single_UpdateInvalid(single, rid, single_validateUpdatePayload(payload))
       ELSE single_UpdateAccept(single, rid, single_validateUpdatePayload(payload).value, now)
  /\ UNCHANGED now

\* wss.on('connection'): every connection is registered.
single_WsConnection(c) ==
  /\ Step
  /\ single.ws[c].readyState = "NONE"
  /\ \A d \in ConnIds : d < c => single.ws[d].readyState # "NONE"
  /\ single' = [single_Quiet(single) EXCEPT
       !.ws[c] = [isAlive |-> TRUE, readyState |-> "OPEN", registered |-> TRUE,
                  terminated |-> FALSE],
       !.clients = @ \cup {c},
       !.metrics.wsConnectionsTotal = @ + 1,
       !.sent[c] = Append(@, WelcomeMessage(now))]
  /\ UNCHANGED now

single_WsPong(c) ==
  /\ Step
  /\ single.ws[c].registered
  /\ single.ws[c].readyState \in {"OPEN", "CLOSING"}
  /\ ~single.ws[c].terminated
  /\ single' = [single_Quiet(single) EXCEPT !.ws[c].isAlive = TRUE, !.sweeps[c] = 0]
  /\ UNCHANGED now

single_WsClosing(c) ==
  /\ Step
  /\ single.ws[c].readyState = "OPEN"
  /\ single' = [single_Quiet(single) EXCEPT !.ws[c].readyState = "CLOSING"]
  /\ UNCHANGED now

single_WsClose(c) ==
  /\ Step
  /\ single.ws[c].readyState \in {"OPEN", "CLOSING"}
  /\ single' = [single_Quiet(single) EXCEPT !.ws[c].readyState = "CLOSED", !.clients = @ \ {c}]
  /\ UNCHANGED now

single_WsError(c) ==
  /\ Step
  /\ single.ws[c].readyState = "OPEN"
  /\ single' = [single_Quiet(single) EXCEPT !.ws[c].readyState = "CLOSING",
                                            !.metrics.wsErrorsTotal = @ + 1]
  /\ UNCHANGED now

single_IsStale(s, c) == s.ws[c].isAlive = FALSE

single_wsHealthInterval ==
  /\ Step
  /\ single.clients # {}
  /\ single' = [single_Quiet(single) EXCEPT
       !.ws = [c \in ConnIds |->
                 IF c \notin single.clients THEN single.ws[c]
                 ELSE IF single_IsStale(single, c)
                   THEN [single.ws[c] EXCEPT !.terminated = TRUE,
                                             !.readyState = IF @ = "CLOSED" THEN @ ELSE "CLOSING"]
                   ELSE [single.ws[c] EXCEPT !.isAlive = FALSE]],
       !.clients = {c \in single.clients : ~single_IsStale(single, c)},
       !.metrics.wsTerminatedStaleTotal =
          @ + Cardinality({c \in single.clients : single_IsStale(single, c)}),
       !.sweeps = [c \in ConnIds |-> IF c \in single.clients THEN @[c] + 1 ELSE @[c]]]
  /\ UNCHANGED now

(***************************************************************************)
(* broadcastPageUpdate on its own: the function called with any state, in  *)
(* any registry the connection events can produce.                         *)
(***************************************************************************)
BroadcastStates ==
  [remId : {Null, Some(""), Some("r1")}, strength : {Null, Some("strong")},
   updatedAt : {Null, Some(ToISOString(0))}, sourceClientId : {Null, Some("d1")}]

BroadcastCall(userId, state) ==
  /\ Step
  /\ sent' = broadcastPageUpdate(userId, state, metrics).sent
  /\ metrics' = broadcastPageUpdate(userId, state, metrics).metrics
  /\ response' = NoResponse
  /\ UNCHANGED <<now, latestStateByUserId, latestStateLastTouchedAtByUserId, activeClients, clients,
                 ws, requests, accepted, liveUpdate, sweeps>>

\* The single-tenant function takes no argument: it runs on whatever the
\* global state object holds.
single_BroadcastCall(state) ==
  /\ Step
  /\ single' = single_broadcastPageUpdate([single_Quiet(single) EXCEPT !.latestState = state])
  /\ UNCHANGED now

(***************************************************************************)
(* The send loop when ws.send throws.  Neither relay wraps the call in a   *)
(* try block, so an exception leaves the for loop and the function: the    *)
(* members of the Set after the throwing one are not visited and the       *)
(* counters after the loop are not updated.  A Set is visited in insertion *)
(* order, which is the order of the connection ids.                        *)
(***************************************************************************)
SendLoop(recipients, throwing) ==
  LET firstThrow == {c \in recipients \cap throwing :
                       \A d \in recipients \cap throwing : c <= d}
  IN  [delivered |-> {c \in recipients : \A f \in firstThrow : c < f},
       thrown |-> firstThrow # {}]

CompleteState ==
  [remId |-> Some("r1"), strength |-> Some("strong"), updatedAt |-> Some(ToISOString(0)),
   sourceClientId |-> Some("d1")]

SendCall(recipients, throwing, message, sentBefore) ==
  [fn |-> "broadcastPageUpdate", recipients |-> recipients, throwing |-> throwing,
   message |-> message, sentBefore |-> sentBefore,
   thrown |-> SendLoop(recipients, throwing).thrown]

\* broadcastPageUpdate(userId, state) with ws.send throwing for the
\* connections in `throwing`.
BroadcastSendCall(userId, throwing) ==
  /\ variant = "multi"
  /\ call = NoCall
  /\ Step
  /\ LET loop == SendLoop(BroadcastRecipients(userId), throwing)
         message == PageUpdateMessage(userId, CompleteState)
     IN  /\ sent' = [c \in ConnIds |->
                       IF c \in loop.delivered THEN Append(sent[c], message) ELSE sent[c]]
         /\ metrics' = IF loop.thrown THEN metrics
                       ELSE [metrics EXCEPT
                               !.wsBroadcastMessagesTotal = @ + 1,
                               !.wsBroadcastRecipientsTotal = @ + Cardinality(loop.delivered)]
         /\ call' = SendCall(BroadcastRecipients(userId), throwing, message, sent)
  /\ response' = NoResponse
  /\ UNCHANGED <<now, variant, single, latestStateByUserId, latestStateLastTouchedAtByUserId,
                 activeClients, clients, ws, requests, accepted, liveUpdate, sweeps, plugin,
                 world>>

single_BroadcastSendCall(throwing) ==
  /\ variant = "single"
  /\ call = NoCall
  /\ Step
  /\ LET loop == SendLoop(single_BroadcastRecipients(single), throwing)
         message == single_PageUpdateMessage(CompleteState)
     IN  /\ single' = [single_Quiet(single) EXCEPT
               !.latestState = CompleteState,
               !.sent = [c \in ConnIds |->
                           IF c \in loop.delivered THEN Append(single.sent[c], message)
                           ELSE single.sent[c]],
               !.metrics.wsBroadcastMessagesTotal = IF loop.thrown THEN @ ELSE @ + 1,
               !.metrics.wsBroadcastRecipientsTotal =
                   IF loop.thrown THEN @ ELSE @ + Cardinality(loop.delivered)]
         /\ call' = SendCall(single_BroadcastRecipients(single), throwing, message, single.sent)
  /\ UNCHANGED <<now, variant, relayVars, plugin, world>>

(***************************************************************************)
(* The catch block of POST /update for an exception that is not one of     *)
(* parseRequestBody's rejections: ws.send throwing inside the broadcast,   *)
(* after the update was stored.  error.code is whatever the thrower set.   *)
(***************************************************************************)
RawCodes == {Undefined, JNumber, JStr("E_INTERNAL"), JStr("EPIPE")}

\* const code = typeof rawCode === 'string' ? rawCode : 'E_INTERNAL'
CatchCode(rawCode) == IF rawCode.t = "string" THEN rawCode.s ELSE "E_INTERNAL"

UpdateEndSendThrows(rid, payload, throwing, rawCode) ==
  /\ variant = "multi"
  /\ Step
  /\ requests[rid].phase = "reading"
  /\ ~requests[rid].settled
  /\ payload \in BodyParses(requests[rid].body)
  /\ payload # SyntaxError
  /\ validateUpdatePayload(payload).ok
  /\ LET update == validateUpdatePayload(payload).value
         nowMs == now
         nextState == NextState(update, ToISOString(nowMs))
         loop == SendLoop(BroadcastRecipients(update.userId), throwing)
         code == CatchCode(rawCode)
     IN  /\ loop.thrown
         /\ latestStateByUserId' = MapSet(latestStateByUserId, StoreKey(update), nextState)
         /\ latestStateLastTouchedAtByUserId' =
              MapSet(latestStateLastTouchedAtByUserId, StoreKey(update), nowMs)
         /\ activeClients' =
              MapSet(activeClients, update.sourceClientId, ClientActivity(update, nowMs))
         /\ sent' = [c \in ConnIds |->
                       IF c \in loop.delivered
                         THEN Append(sent[c], PageUpdateMessage(update.userId, nextState))
                         ELSE sent[c]]
         /\ metrics' = [metrics EXCEPT !.httpUpdateAcceptedTotal = @ + 1,
                                       !.httpUpdateRejectedTotal = @ + 1]
         /\ response' = UpdateResponse(rid, StatusOfCode(code), ErrorBody(code, "send failed"))
         /\ requests' = [requests EXCEPT ![rid] =
              [@ EXCEPT !.phase = "ended", !.settled = TRUE, !.nResponses = @ + 1]]
         /\ accepted' = Append(accepted,
              [rid |-> rid, userId |-> update.userId, remId |-> update.remId,
               strength |-> update.strength, sourceClientId |-> update.sourceClientId,
               sentAt |-> update.sentAt, at |-> nowMs, updatedAt |-> nextState.updatedAt])
         /\ liveUpdate' = [liveUpdate EXCEPT ![update.userId] = Some(Len(accepted) + 1)]
         /\ call' = [fn |-> "catch", rid |-> rid, rawCode |-> rawCode]
  /\ UNCHANGED <<now, variant, single, clients, ws, sweeps, plugin, world>>

(***************************************************************************)
(* readPositiveIntegerEnv (multi-tenant relay).  An environment variable   *)
(* is unset (Null) or a text: empty, a word that is no number, Infinity    *)
(* with a sign, or a decimal literal whose value is num / den.             *)
(***************************************************************************)
MaxEnvNum == 8
MaxEnvDen == 2

PORT_DEFAULT == 9091
CLEANUP_INTERVAL_MS_DEFAULT == 300000

EnvTexts ==
  {[form |-> "empty", num |-> 0, den |-> 1], [form |-> "word", num |-> 0, den |-> 1],
   [form |-> "infinity", num |-> 1, den |-> 1], [form |-> "infinity", num |-> -1, den |-> 1]}
    \cup [form : {"decimal"}, num : -MaxEnvNum..MaxEnvNum, den : 1..MaxEnvDen]

EnvValues == {Null} \cup {Some(text) : text \in EnvTexts}

EnvFallbacks == {PORT_DEFAULT, INACTIVITY_TTL_MS, CLEANUP_INTERVAL_MS_DEFAULT}

\* Number(raw) of a non-empty text.
Number(text) ==
  IF text.form = "word" THEN [kind |-> "nan", num |-> 0, den |-> 1]
  ELSE IF text.form = "infinity" THEN [kind |-> "infinite", num |-> text.num, den |-> 1]
  ELSE [kind |-> "finite", num |-> text.num, den |-> text.den]

readPositiveIntegerEnv(raw, fallback) ==
  IF IsNull(raw) \/ Val(raw).form = "empty" THEN fallback
  ELSE LET parsed == Number(Val(raw))
       IN  IF parsed.kind # "finite" \/ parsed.num <= 0 THEN fallback
           ELSE parsed.num \div parsed.den

ReadEnvCall(raw, fallback) ==
  /\ variant = "multi"
  /\ call = NoCall
  /\ call' = [fn |-> "readPositiveIntegerEnv", arg |-> raw, fallback |-> fallback,
              result |-> readPositiveIntegerEnv(raw, fallback)]
  /\ UNCHANGED <<steps, now, variant, relayVars, single, plugin, world>>

NextEnv == \E raw \in EnvValues, fallback \in EnvFallbacks : ReadEnvCall(raw, fallback)

SpecEnv == Init /\ [][NextEnv]_vars

(***************************************************************************)
(* The plugin: handleServerUpdate, in its two implementations (the class   *)
(* PageSyncRuntime and the hook of use_pagesync_sync_engine.ts), applied   *)
(* to a device in any configuration and runtime state.  The handler awaits *)
(* the navigation; `resumed` is runtimeState when the await returns, which *)
(* other handlers (stop, start, a local navigation) may have changed.      *)
(***************************************************************************)
Impls == {"PageSyncRuntime", "usePageSyncSyncEngine"}
ClientRuntimeStates == {"off", "sync", "idle"}
DeviceConfigs == {Null} \cup {Some([mode |-> mode, userId |-> "u1"]) : mode \in {"host", "client"}}
PageUpdateMessages == [remId : {"r1"}, strength : {"strong", "weak"}, userId : UserIds]

Ignored(runtimeState) == [navigated |-> Null, runtimeState |-> runtimeState, notified |-> FALSE]

\* The handler following a weak update while idle.
handleServerUpdate_WeakFollowsWhenIdle(impl, config, runtimeState, payload, navOk, resumed) ==
  IF runtimeState = "off" THEN Ignored(runtimeState)
  ELSE IF IsNull(config) \/ Val(config).mode # "client" THEN Ignored(runtimeState)
  ELSE IF impl = "PageSyncRuntime" /\ payload.userId # Val(config).userId
    THEN Ignored(runtimeState)
  ELSE [navigated |-> Some(payload.remId),
        runtimeState |-> IF navOk /\ resumed = "idle" /\ payload.strength = "strong"
                           THEN "sync" ELSE resumed,
        notified |-> ~navOk]

\* navigated: the remId handed to openRemById, if any; notified: the error
\* of a failed navigation was reported (E_NAV_REMOTE_OPEN).
handleServerUpdate(impl, config, runtimeState, payload, navOk, resumed) ==
  IF runtimeState = "off" THEN Ignored(runtimeState)
  ELSE IF IsNull(config) \/ Val(config).mode # "client" THEN Ignored(runtimeState)
  ELSE IF impl = "PageSyncRuntime" /\ payload.userId # Val(config).userId
    THEN Ignored(runtimeState)
  ELSE IF runtimeState = "idle" /\ payload.strength = "weak" THEN Ignored(runtimeState)
  ELSE [navigated |-> Some(payload.remId),
        runtimeState |-> IF navOk /\ resumed = "idle" /\ payload.strength = "strong"
                           THEN "sync" ELSE resumed,
        notified |-> ~navOk]

HandleServerUpdateCall(impl, config, runtimeState, payload, navOk, resumed) ==
  /\ call = NoCall
  /\ call' = [fn |-> "handleServerUpdate", impl |-> impl, config |-> config,
              runtimeState |-> runtimeState, payload |-> payload, navOk |-> navOk,
              resumed |-> resumed,
              result |-> handleServerUpdate(impl, config, runtimeState, payload, navOk, resumed)]
  /\ UNCHANGED <<steps, now, variant, relayVars, single, plugin, world>>

NextFollower ==
  \E impl \in Impls, config \in DeviceConfigs, runtimeState \in ClientRuntimeStates,
     payload \in PageUpdateMessages, navOk \in BOOLEAN, resumed \in ClientRuntimeStates :
    HandleServerUpdateCall(impl, config, runtimeState, payload, navOk, resumed)

SpecFollower == Init /\ [][NextFollower]_vars

(***************************************************************************)
(* validateUpdatePayload on its own: the function applied to parsed bodies *)
(* of every shape.                                                         *)
(***************************************************************************)
PayloadKeys == {"remId", "strength", "userId", "sourceClientId", "sentAt", "extra"}

\* What a body may hold under each key (Undefined: the key is absent).
PayloadChoices ==
  [remId : {Undefined, JStr("r1"), JStr("a b"), JStr(LongId), JStr(""), JNumber, JNull},
   strength : {Undefined, JStr("strong"), JStr("weak"), JStr("r1"), JNull},
   userId : {Undefined, JStr("u1"), JStr("a/b"), JNumber},
   sourceClientId : {Undefined, JStr("d1"), JStr("")},
   sentAt : {Undefined, JStr("2024-01-01T00:00:00.000Z"), JStr("yesterday"), JNumber, JNull},
   extra : {Undefined, JStr("x")}]

MakePayload(choice) ==
  JObj([k \in {key \in PayloadKeys : choice[key] # Undefined} |-> choice[k]])

\* Parsed bodies that are no plain object: an array, null, a string, a number.
NonObjects == {JArray, JNull, JStr("r1"), JNumber}

ValidatorInputs == {MakePayload(choice) : choice \in PayloadChoices} \cup NonObjects

\* One call in a behaviour.
ValidateCall(payload) ==
  /\ variant = "multi"
  /\ call = NoCall
  /\ call' = [fn |-> "validateUpdatePayload", arg |-> payload,
              result |-> validateUpdatePayload(payload)]
  /\ UNCHANGED <<steps, now, variant, relayVars, single, plugin, world>>

single_ValidateCall(payload) ==
  /\ variant = "single"
  /\ call = NoCall
  /\ call' = [fn |-> "validateUpdatePayload", arg |-> payload,
              result |-> single_validateUpdatePayload(payload)]
  /\ UNCHANGED <<steps, now, variant, relayVars, single, plugin, world>>

NextValidator ==
  \/ \E payload \in ValidatorInputs : ValidateCall(payload)
  \/ \E payload \in ValidatorInputs : single_ValidateCall(payload)

SpecValidator == Init /\ [][NextValidator]_vars

(***************************************************************************)
(* The relay: the process runs one of the two programs.                    *)
(***************************************************************************)
Multi == variant = "multi" /\ UNCHANGED <<variant, single, call, plugin, world>>
Single == variant = "single" /\ UNCHANGED <<variant, relayVars, call, plugin, world>>

Next ==
  \/ Multi /\ Tick
  \/ Multi /\ CleanupInterval
  \/ Multi /\ \E query \in QueryUserIds : GetState(query)
  \/ Multi /\ \E rid \in ReqIds : UpdateStart(rid)
  \/ Multi /\ \E rid \in ReqIds, size \in ChunkSizes : UpdateData(rid, size)
  \/ Multi /\ \E rid \in ReqIds : UpdateStreamError(rid)
  \/ Multi /\ \E rid \in ReqIds, payload \in Payloads \cup {SyntaxError} : UpdateEnd(rid, payload)
  \/ Multi /\ \E c \in ConnIds, query \in QueryUserIds : WsConnection(c, query)
  \/ Multi /\ \E c \in ConnIds : WsPong(c)
  \/ Multi /\ \E c \in ConnIds : WsClosing(c)
  \/ Multi /\ \E c \in ConnIds : WsClose(c)
  \/ Multi /\ \E c \in ConnIds : WsError(c)
  \/ Multi /\ wsHealthInterval
  \/ Single /\ single_Tick
  \/ Single /\ single_CleanupInterval
  \/ Single /\ \E query \in single_Queries : single_GetState(query)
  \/ Single /\ \E rid \in ReqIds : single_UpdateStart(rid)
  \/ Single /\ \E rid \in ReqIds, size \in ChunkSizes : single_UpdateData(rid, size)
  \/ Single /\ \E rid \in ReqIds : single_UpdateStreamError(rid)
  \/ Single /\ \E rid \in ReqIds, payload \in single_Payloads \cup {SyntaxError} :
                 single_UpdateEnd(rid, payload)
  \/ Single /\ \E c \in ConnIds : single_WsConnection(c)
  \/ Single /\ \E c \in ConnIds : single_WsPong(c)
  \/ Single /\ \E c \in ConnIds : single_WsClosing(c)
  \/ Single /\ \E c \in ConnIds : single_WsClose(c)
  \/ Single /\ \E c \in ConnIds : single_WsError(c)
  \/ Single /\ single_wsHealthInterval

Spec == Init /\ [][Next]_vars

\* broadcastPageUpdate called with arbitrary states, between the events that
\* change the registry and the updates that call it with a stored state.
NextBroadcast ==
  \/ Multi /\ \E userId \in UserIds, state \in BroadcastStates : BroadcastCall(userId, state)
  \/ Multi /\ \E c \in ConnIds, query \in QueryUserIds : WsConnection(c, query)
  \/ Multi /\ \E c \in ConnIds : WsClosing(c)
  \/ Multi /\ \E c \in ConnIds : WsClose(c)
  \/ Multi /\ \E rid \in ReqIds : UpdateStart(rid)
  \/ Multi /\ \E rid \in ReqIds, size \in ChunkSizes : UpdateData(rid, size)
  \/ Multi /\ \E rid \in ReqIds, payload \in Payloads \cup {SyntaxError} : UpdateEnd(rid, payload)
  \/ Single /\ \E state \in BroadcastStates : single_BroadcastCall(state)
  \/ Single /\ \E c \in ConnIds : single_WsConnection(c)
  \/ Single /\ \E c \in ConnIds : single_WsClosing(c)
  \/ Single /\ \E c \in ConnIds : single_WsClose(c)
  \/ Single /\ \E rid \in ReqIds : single_UpdateStart(rid)
  \/ Single /\ \E rid \in ReqIds, size \in ChunkSizes : single_UpdateData(rid, size)
  \/ Single /\ \E rid \in ReqIds, payload \in single_Payloads \cup {SyntaxError} :
                 single_UpdateEnd(rid, payload)

SpecBroadcast == Init /\ [][NextBroadcast]_vars

\* broadcastPageUpdate called once with sends that may throw, in every
\* registry the connection events produce.
NextSendFailure ==
  \/ \E userId \in UserIds, throwing \in SUBSET ConnIds : BroadcastSendCall(userId, throwing)
  \/ Multi /\ \E c \in ConnIds, query \in QueryUserIds : WsConnection(c, query)
  \/ Multi /\ \E c \in ConnIds : WsClosing(c)
  \/ Multi /\ \E c \in ConnIds : WsClose(c)
  \/ \E throwing \in SUBSET ConnIds : single_BroadcastSendCall(throwing)
  \/ Single /\ \E c \in ConnIds : single_WsConnection(c)
  \/ Single /\ \E c \in ConnIds : single_WsClosing(c)
  \/ Single /\ \E c \in ConnIds : single_WsClose(c)

SpecSendFailure == Init /\ [][NextSendFailure]_vars

\* The requests that can be answered with a failure, with the sends of the
\* broadcast allowed to throw.
NextCatch ==
  \/ \E rid \in ReqIds, payload \in ValidPayloads, throwing \in SUBSET ConnIds,
        rawCode \in RawCodes : UpdateEndSendThrows(rid, payload, throwing, rawCode)
  \/ Multi /\ \E c \in ConnIds, query \in QueryUserIds : WsConnection(c, query)
  \/ Multi /\ \E query \in QueryUserIds : GetState(query)
  \/ Multi /\ \E rid \in ReqIds : UpdateStart(rid)
  \/ Multi /\ \E rid \in ReqIds, size \in ChunkSizes : UpdateData(rid, size)
  \/ Multi /\ \E rid \in ReqIds : UpdateStreamError(rid)
  \/ Multi /\ \E rid \in ReqIds, payload \in Payloads \cup {SyntaxError} : UpdateEnd(rid, payload)
  \/ Single /\ \E query \in single_Queries : single_GetState(query)

SpecCatch == Init /\ [][NextCatch]_vars

(***************************************************************************)
(* Both relays side by side.  Every event happens to both at the same      *)
(* time: the multi-tenant relay is given the userId FixedUser where it     *)
(* asks for one, the single-tenant relay is given none.  Here both relays  *)
(* run whatever `variant` says.                                            *)
(***************************************************************************)
FixedUser == "u1"

\* The body sent to the single-tenant relay: the same without the userId.
WithoutUserId(payload) ==
  IF payload.t = "object" THEN [payload EXCEPT !.f = WithoutField(@, "userId")] ELSE payload

LockstepPayloads ==
  {payload \in Payloads \cup {SyntaxError} :
     (payload.t = "object" /\ "userId" \in DOMAIN payload.f)
       => payload.f["userId"] = JStr(FixedUser)}

Both == UNCHANGED <<variant, call, plugin, world>>

NextLockstep ==
  \/ Both /\ Tick /\ single_Tick
  \/ Both /\ CleanupInterval /\ single_CleanupInterval
  \/ Both /\ GetState(Some(FixedUser)) /\ single_GetState(Null)
  \/ Both /\ \E rid \in ReqIds : UpdateStart(rid) /\ single_UpdateStart(rid)
  \/ Both /\ \E rid \in ReqIds, size \in ChunkSizes :
               UpdateData(rid, size) /\ single_UpdateData(rid, size)
  \/ Both /\ \E rid \in ReqIds : UpdateStreamError(rid) /\ single_UpdateStreamError(rid)
  \/ Both /\ \E rid \in ReqIds, payload \in LockstepPayloads :
               UpdateEnd(rid, payload) /\ single_UpdateEnd(rid, WithoutUserId(payload))
  \/ Both /\ \E c \in ConnIds : WsConnection(c, Some(FixedUser)) /\ single_WsConnection(c)
  \/ Both /\ \E c \in ConnIds : WsPong(c) /\ single_WsPong(c)
  \/ Both /\ \E c \in ConnIds : WsClosing(c) /\ single_WsClosing(c)
  \/ Both /\ \E c \in ConnIds : WsClose(c) /\ single_WsClose(c)
  \/ Both /\ \E c \in ConnIds : WsError(c) /\ single_WsError(c)
  \/ Both /\ wsHealthInterval /\ single_wsHealthInterval

SpecLockstep == Init /\ [][NextLockstep]_vars


(***************************************************************************)
(* The plugin's sync engine.  The class PageSyncRuntime runs against the   *)
(* multi-tenant relay and the hook usePageSyncEngine against the           *)
(* single-tenant relay (each sends and expects the other's userId or its   *)
(* absence), so `variant` also says which of the two the device runs.  The *)
(* hook's refs are read as holding the state they mirror.  An async        *)
(* function runs to its next await in one action and is resumed by         *)
(* another; the awaits of one call that touch no field in between          *)
(* (storage reads, the two steps of openRemById, getCurrentRemId followed  *)
(* by fetch) are taken as one.  The settings are not changed while the     *)
(* plugin runs.                                                            *)
(***************************************************************************)
Impl == IF variant = "multi" THEN "PageSyncRuntime" ELSE "usePageSyncSyncEngine"

PluginConfigs ==
  [mode : {"host", "client"}, userId : {FixedUser}, inactivityHours : {0, DEFAULT_INACTIVITY_HOURS}]

Task(at, generation, strength) == [at |-> at, generation |-> generation, strength |-> strength]

\* A pair of the two records, as the handlers below return it.
State(p, w) == [p |-> p, w |-> w]

Suspend(w, task) == [w EXCEPT !.tasks = @ \cup {task}]
Resume(w, task) == [w EXCEPT !.tasks = @ \ {task}]
CanSuspend(task) == task \notin world.tasks /\ Cardinality(world.tasks) < MaxTasks
Suspended(at) == {task \in world.tasks : task.at = at}

setRuntimeState(p, next) == [p EXCEPT !.runtimeState = next]
setConnectionState(p, next) == [p EXCEPT !.connectionState = next]
closeSocket(p) == [p EXCEPT !.ws = Null]

\* clearTimeout of the timer the field holds.
clearReconnect(s) ==
  IF IsNull(s.p.reconnectTimer) THEN s
  ELSE State([s.p EXCEPT !.reconnectTimer = Null], [s.w EXCEPT !.reconnectTimeouts = @ - 1])

clearInactivityTimer(s) ==
  IF IsNull(s.p.inactivityTimer) THEN s
  ELSE State([s.p EXCEPT !.inactivityTimer = Null], [s.w EXCEPT !.inactivityTimeouts = @ - 1])

Mode(p) == IF IsNull(p.config) THEN "none" ELSE Val(p.config).mode

\* stop(): the part before the toast of an inactivity stop.
stop(s) ==
  LET cleared == clearInactivityTimer(clearReconnect(s))
  IN  State([cleared.p EXCEPT !.ws = Null, !.reconnectGeneration = @ + 1,
                              !.runtimeState = "off", !.connectionState = "inactive",
                              !.reconnectAttempt = 0, !.invalidPayloadTimestamps = <<>>],
            [cleared.w EXCEPT !.stopped = TRUE, !.consecutive = 0, !.epoch = @ + 1,
                              !.reconnect = IF @ = "owed" THEN "dropped" ELSE @,
                              !.invalidAt = <<>>])

Min(a, b) == IF a < b THEN a ELSE b
Max(a, b) == IF a > b THEN a ELSE b

\* The delay without the doubling.
ReconnectDelay_Fixed(attempt) == WS_RECONNECT_BASE_DELAY_MS

ReconnectDelay(attempt) ==
  Min(WS_RECONNECT_MAX_DELAY_MS, WS_RECONNECT_BASE_DELAY_MS * 2 ^ attempt)

scheduleClientReconnect(s, nowMs) ==
  IF Mode(s.p) # "client" \/ s.p.runtimeState = "off" \/ ~IsNull(s.p.reconnectTimer) THEN s
  ELSE State([s.p EXCEPT !.reconnectAttempt = @ + 1,
                         !.connectionState = "connecting",
                         !.reconnectTimer =
                            Some([due |-> nowMs + ReconnectDelay(s.p.reconnectAttempt),
                                  generation |-> s.p.reconnectGeneration])],
             [s.w EXCEPT !.reconnectTimeouts = @ + 1,
                         !.armed = Some([at |-> nowMs, n |-> s.w.consecutive, epoch |-> s.w.epoch]),
                         !.consecutive = @ + 1])

InactivityPeriod(config) == Max(1, config.inactivityHours) * MS_PER_HOUR

resetInactivityTimer(s, nowMs) ==
  IF Mode(s.p) # "host" THEN s
  ELSE LET cleared == clearInactivityTimer(s)
       IN  State([cleared.p EXCEPT !.inactivityTimer =
                                      Some(nowMs + InactivityPeriod(Val(s.p.config)))],
                 [cleared.w EXCEPT !.inactivityTimeouts = @ + 1])

\* sendUpdate() after a 2xx response.
sendUpdateOk(p) ==
  IF Mode(p) = "host" /\ p.runtimeState # "off" THEN setConnectionState(p, "connected") ELSE p

\* connectWebSocket(): `throws` says whether new WebSocket(wsUrl) throws.
connectWebSocket(s, expectedGeneration, throws) ==
  IF ~IsNull(expectedGeneration) /\ Val(expectedGeneration) # s.p.reconnectGeneration THEN s
  ELSE IF IsNull(s.p.config) THEN s
  ELSE LET cleared == clearReconnect(s)
           q == setConnectionState(closeSocket(cleared.p), "connecting")
           tried == [cleared.w EXCEPT !.attempts = @ + 1, !.reconnect = "none"]
       IN  IF throws
             THEN State(setConnectionState(q, "degraded"),
                        Suspend(tried, Task("connectWebSocket.notifyError", 0, "")))
             ELSE State([q EXCEPT !.ws = Some("CONNECTING")], tried)

\* applyRemoteNavigation() up to its await.
applyRemoteNavigation(s, task) ==
  State([s.p EXCEPT !.isApplyingRemoteNav = TRUE], Suspend(s.w, task))

\* The finally of applyRemoteNavigation().
NavigationSettled(w, nowMs) ==
  [w EXCEPT !.navTimers = @ \cup {nowMs + REMOTE_NAV_SUPPRESSION_MS},
            !.navFinishedAt = Some(nowMs)]

\* Frames: the device's actions leave the relay alone.
Device == UNCHANGED <<variant, relayVars, single, call>>
Counted == steps < MaxPluginSteps /\ steps' = steps + 1
Uncounted == UNCHANGED steps
Becomes(state) == plugin' = state.p /\ world' = state.w /\ UNCHANGED now /\ Device

PluginTick(d) ==
  /\ world.activated
  /\ now' = now + d
  /\ UNCHANGED <<plugin, world>>
  /\ Device

\* init(): loadDeviceConfig, without autoStart.
Activate(config) ==
  /\ ~world.activated
  /\ Becomes(State([plugin EXCEPT !.config = Some(config)], [world EXCEPT !.activated = TRUE]))

\* start() up to the await of refreshConfig().
StartCalled ==
  /\ world.activated
  /\ CanSuspend(Task("start", 0, ""))
  /\ Becomes(State(plugin, [Suspend(world, Task("start", 0, "")) EXCEPT !.stopped = FALSE]))

\* startHostSync() up to the await of the initial update.
startHostSync(s) ==
  State(setConnectionState(setRuntimeState(s.p, "sync"), "connecting"),
        Suspend(s.w, Task("startHostSync.sendUpdate", 0, "strong")))

\* startClientSync() up to the await of fetchServerState().
startClientSync(s) ==
  State([setConnectionState(setRuntimeState(s.p, "sync"), "connecting")
           EXCEPT !.reconnectGeneration = @ + 1],
        [Suspend(s.w, Task("startClientSync.fetchServerState", s.p.reconnectGeneration + 1, ""))
           EXCEPT !.epoch = @ + 1])

\* start() from the return of refreshConfig(), which in PageSyncRuntime
\* re-arms the inactivity timer of a host that is already active.
StartResumed ==
  /\ Task("start", 0, "") \in world.tasks
  /\ LET w == Resume(world, Task("start", 0, ""))
     IN  Becomes(IF plugin.runtimeState # "off"
                   THEN (IF Impl = "PageSyncRuntime"
                           THEN resetInactivityTimer(State(plugin, w), now)
                           ELSE State(plugin, w))
                 ELSE IF Mode(plugin) = "host" THEN startHostSync(State(plugin, w))
                 ELSE startClientSync(State(plugin, w)))

\* stop('manual'), from the stop button or the stop command.
StopCalled ==
  /\ world.activated
  /\ Becomes(stop(State(plugin, world)))

\* fetchServerState() settles: it fails, or the relay's state has a remId
\* or none.
FetchResults == {"failed", "empty", "remId"}

\* startClientSync() from the return of fetchServerState().
StartClientFetchDone(task, result, throws) ==
  /\ task \in Suspended("startClientSync.fetchServerState")
  /\ LET w == Resume(world, task)
     IN  Becomes(CASE result = "failed" ->
                        State(plugin, Suspend(w, Task("startClientSync.notifyError", 0, "")))
                   [] result = "remId" ->
                        applyRemoteNavigation(State(plugin, w),
                          Task("startClientSync.applyRemoteNavigation", task.generation, ""))
                   [] result = "empty" ->
                        connectWebSocket(State(plugin, w), Some(task.generation), throws))

\* startClientSync() after the toast of E_STATE_FETCH: stop('error').
StartClientNotified ==
  /\ Task("startClientSync.notifyError", 0, "") \in world.tasks
  /\ Becomes(stop(State(plugin, Resume(world, Task("startClientSync.notifyError", 0, "")))))

NavigationTasks ==
  {"startClientSync.applyRemoteNavigation", "syncNow.applyRemoteNavigation",
   "handleServerUpdate.applyRemoteNavigation"}

Navigating(w) == {task \in w.tasks : task.at \in NavigationTasks}

\* openRemById() settles: the finally of applyRemoteNavigation() sets its
\* timer and the caller goes on.
NavDone(task, ok, throws) ==
  /\ task \in Navigating(world)
  /\ LET w == NavigationSettled(Resume(world, task), now)
     IN  Becomes(CASE task.at = "startClientSync.applyRemoteNavigation" ->
                        connectWebSocket(State(plugin, w), Some(task.generation), throws)
                   [] task.at = "syncNow.applyRemoteNavigation" ->
                        State(IF ok THEN setRuntimeState(plugin, "sync") ELSE plugin, w)
                   [] task.at = "handleServerUpdate.applyRemoteNavigation" ->
                        State(IF ok /\ plugin.runtimeState = "idle" /\ task.strength = "strong"
                                THEN setRuntimeState(plugin, "sync") ELSE plugin, w))

\* The callback of the timer applyRemoteNavigation() set.
NavTimerFires(due) ==
  /\ due \in world.navTimers
  /\ due <= now
  /\ Becomes(State([plugin EXCEPT !.isApplyingRemoteNav = FALSE],
                   [world EXCEPT !.navTimers = @ \ {due}]))

\* syncNow() of PageSyncRuntime, onPressResync() of the hook, up to the
\* first await.
SyncNowCalled ==
  /\ world.activated
  /\ Becomes(IF IsNull(plugin.config) \/ plugin.runtimeState = "off"
               THEN (IF Impl = "PageSyncRuntime" /\ CanSuspend(Task("start", 0, ""))
                       THEN State(plugin, [Suspend(world, Task("start", 0, ""))
                                             EXCEPT !.stopped = FALSE])
                       ELSE State(plugin, world))
             ELSE IF Cardinality(world.tasks) >= MaxTasks THEN State(plugin, world)
             ELSE IF Mode(plugin) = "host"
               THEN State(plugin, Suspend(world, Task("syncNow.sendUpdate", 0, "strong")))
             ELSE State(plugin, Suspend(world, Task("syncNow.fetchServerState", 0, ""))))

\* syncNow() of a client from the return of fetchServerState().
SyncNowFetchDone(task, result) ==
  /\ task \in Suspended("syncNow.fetchServerState")
  /\ LET w == Resume(world, task)
     IN  Becomes(IF result = "remId"
                   THEN applyRemoteNavigation(State(plugin, w),
                                              Task("syncNow.applyRemoteNavigation", 0, ""))
                   ELSE State(plugin, w))

(***************************************************************************)
(* The messages of the WebSocket, as JSON.parse returns them.              *)
(***************************************************************************)
isPageUpdateMessage(impl, value) ==
  /\ value.t \in {"object", "array"}
  /\ Get(value, "type") = JStr("page_update")
  /\ Get(value, "remId").t = "string"
  /\ impl = "PageSyncRuntime" => Get(value, "userId").t = "string"
  /\ Get(value, "strength") \in {JStr("strong"), JStr("weak")}

isWelcomeMessage(value) ==
  /\ value.t \in {"object", "array"}
  /\ Get(value, "type") = JStr("welcome")
  /\ Get(value, "now").t \in {"undefined", "string"}

\* The message types the handler of the implementation returns on.
Recognized(impl, value) ==
  \/ isPageUpdateMessage(impl, value)
  \/ impl = "PageSyncRuntime" /\ isWelcomeMessage(value)

\* JSON.parse of the text the relay sent: JSON.stringify of its message.
ParsedMessage(message) ==
  JObj([k \in DOMAIN message |->
          CASE k \in {"type", "userId", "now"} -> JStr(message[k])
            [] OTHER -> IF IsNull(message[k]) THEN JNull ELSE JStr(Val(message[k]))])

\* The messages the relay sent on connection c so far.
SentOn(c) == IF variant = "multi" THEN sent[c] ELSE single.sent[c]

PageUpdateFields(strength, userId) ==
  [k \in {"type", "remId", "strength", "userId"} |->
     CASE k = "type" -> JStr("page_update")
       [] k = "remId" -> JStr("r1")
       [] k = "strength" -> JStr(strength)
       [] k = "userId" -> JStr(userId)]

WelcomeFields ==
  [k \in {"type", "now"} |-> IF k = "type" THEN JStr("welcome") ELSE JStr("2024-01-01T00:00:00.000Z")]

\* The payload handleServerUpdate() reads from a page_update.
PayloadOf(value) ==
  [remId |-> Get(value, "remId").s, strength |-> Get(value, "strength").s,
   userId |-> Get(value, "userId").s]

\* notifyError() of an invalid payload: with toast false it returns before
\* the cooldown test and the toast.
notifyError(w, toast) == IF ~toast THEN w ELSE [w EXCEPT !.toasts = @ + 1]

\* The filter with < in place of <=.
RecordInvalidPayload_DropsAtWindow(p, nowMs) ==
  LET kept == SelectSeq(p.invalidPayloadTimestamps,
                        LAMBDA timestamp : nowMs - timestamp < INVALID_WS_PAYLOAD_WINDOW_MS)
      q == [p EXCEPT !.invalidPayloadTimestamps = Append(kept, nowMs)]
  IN  IF Len(q.invalidPayloadTimestamps) >= INVALID_WS_PAYLOAD_THRESHOLD
        THEN setConnectionState(q, "degraded") ELSE q

\* The filter and concat of the handler, and the test that follows.
RecordInvalidPayload(p, nowMs) ==
  LET kept == SelectSeq(p.invalidPayloadTimestamps,
                        LAMBDA timestamp : nowMs - timestamp <= INVALID_WS_PAYLOAD_WINDOW_MS)
      q == [p EXCEPT !.invalidPayloadTimestamps = Append(kept, nowMs)]
  IN  IF Len(q.invalidPayloadTimestamps) >= INVALID_WS_PAYLOAD_THRESHOLD
        THEN setConnectionState(q, "degraded") ELSE q

\* ws.onmessage: onWebSocketMessage() up to the await of the navigation.
onWebSocketMessage(p, w, value, nowMs) ==
  IF value # SyntaxError /\ isPageUpdateMessage(Impl, value)
    THEN (IF ~IsNull(handleServerUpdate(Impl, p.config, p.runtimeState, PayloadOf(value),
                                        TRUE, p.runtimeState).navigated)
            THEN applyRemoteNavigation(State(p, w),
                   Task("handleServerUpdate.applyRemoteNavigation", 0, PayloadOf(value).strength))
            ELSE State(p, w))
  ELSE IF value # SyntaxError /\ Impl = "PageSyncRuntime" /\ isWelcomeMessage(value)
    THEN State(p, w)
  ELSE State(RecordInvalidPayload(p, nowMs),
             notifyError([w EXCEPT !.invalidAt = Append(@, nowMs)], FALSE))

WsOpen ==
  /\ plugin.ws = Some("CONNECTING")
  /\ Becomes(State([setConnectionState(plugin, "connected")
                      EXCEPT !.ws = Some("OPEN"), !.reconnectAttempt = 0,
                             !.invalidPayloadTimestamps = <<>>],
                   [world EXCEPT !.consecutive = 0, !.invalidAt = <<>>]))

WsMessage(value) ==
  /\ plugin.ws = Some("OPEN")
  /\ Becomes(onWebSocketMessage(plugin, world, value, now))

\* ws.onclose.
WsClosed ==
  /\ ~IsNull(plugin.ws)
  /\ LET p == [plugin EXCEPT !.ws = Null]
         q == IF p.runtimeState # "off" THEN setConnectionState(p, "connecting") ELSE p
     IN  Becomes(scheduleClientReconnect(
                   State(q, [world EXCEPT !.reconnect =
                               IF Mode(plugin) = "client" /\ plugin.runtimeState # "off"
                                 THEN "owed" ELSE @]),
                   now))

\* ws.onerror.
WsErrored ==
  /\ ~IsNull(plugin.ws)
  /\ Becomes(State(setConnectionState(plugin, "degraded"), world))

\* The callback of the timer scheduleClientReconnect() set.
ReconnectTimerFires(throws) ==
  /\ ~IsNull(plugin.reconnectTimer)
  /\ Val(plugin.reconnectTimer).due <= now
  /\ LET timer == Val(plugin.reconnectTimer)
         fired == State([plugin EXCEPT !.reconnectTimer = Null],
                        [world EXCEPT !.reconnectTimeouts = @ - 1])
         connected == connectWebSocket(fired, Some(timer.generation), throws)
     IN  Becomes(IF timer.generation # plugin.reconnectGeneration THEN fired
                 ELSE State(connected.p,
                            [connected.w EXCEPT !.staleAttempt =
                               @ \/ Val(world.armed).epoch # world.epoch]))

\* Time passes until the reconnect timer is due.
ReconnectDue ==
  /\ ~IsNull(plugin.reconnectTimer)
  /\ Val(plugin.reconnectTimer).due > now
  /\ now' = Val(plugin.reconnectTimer).due
  /\ UNCHANGED <<plugin, world>>
  /\ Device

\* connectWebSocket() after the toast of E_WS_OPEN.
ConnectNotified ==
  /\ Task("connectWebSocket.notifyError", 0, "") \in world.tasks
  /\ Becomes(scheduleClientReconnect(
               State(plugin, Resume(world, Task("connectWebSocket.notifyError", 0, ""))), now))

(***************************************************************************)
(* Navigation on the device.                                               *)
(***************************************************************************)
\* The time during which a GlobalOpenRem event can be the one a remote
\* navigation caused: while openRemById() runs and for
\* REMOTE_NAV_SUPPRESSION_MS after it.
InRemoteNavigation(w, nowMs) ==
  \/ Navigating(w) # {}
  \/ ~IsNull(w.navFinishedAt) /\ nowMs < Val(w.navFinishedAt) + REMOTE_NAV_SUPPRESSION_MS

\* onGlobalOpenRem(): handleLocalNavigation() up to its await.  `remote`
\* says that the event is the one a remote navigation caused.
GlobalOpenRem(remId, remote) ==
  /\ world.activated
  /\ remote => InRemoteNavigation(world, now)
  /\ LET debounced == /\ ~IsNull(remId)
                      /\ plugin.lastNav.remId = remId
                      /\ now - plugin.lastNav.at < LOCAL_NAV_DEBOUNCE_MS
         p == [plugin EXCEPT !.lastNav = [remId |-> remId, at |-> now]]
     IN  Becomes(IF IsNull(plugin.config) \/ debounced THEN State(plugin, world)
                 ELSE IF p.runtimeState = "off" THEN State(p, world)
                 ELSE IF Mode(p) = "host"
                   THEN (IF IsNull(remId) \/ Cardinality(world.tasks) >= MaxTasks THEN State(p, world)
                         ELSE State(p, Suspend(world, Task("handleLocalNavigation.sendUpdate", 0, "weak"))))
                 ELSE IF p.runtimeState = "sync" /\ ~p.isApplyingRemoteNav
                   THEN State(setRuntimeState(p, "idle"),
                              [world EXCEPT !.echoIdled = @ \/ remote])
                 ELSE State(p, world))

(***************************************************************************)
(* The host's updates.                                                     *)
(***************************************************************************)
SendTasks == {"startHostSync.sendUpdate", "syncNow.sendUpdate", "handleLocalNavigation.sendUpdate"}

\* sendUpdate() settles: "ok" is a 2xx response, "failed" a rejected fetch
\* or another status, "none" the return without a request when no rem is
\* open in the focused pane.
SendOutcomes(task) ==
  IF task.at = "handleLocalNavigation.sendUpdate" THEN {"ok", "failed"} ELSE {"ok", "failed", "none"}

\* The update with the failure handled as in startHostSync().
SendFailed_StopsSync(p, w, at) ==
  State(p, Suspend(w, Task("startHostSync.notifyError", 0, "")))

\* The catch blocks of sendUpdate()'s callers.
SendFailed(p, w, at) ==
  IF at = "startHostSync.sendUpdate"
    THEN State(p, Suspend(w, Task("startHostSync.notifyError", 0, "")))
    ELSE State(setConnectionState(p, "degraded"), w)

SendDone(task, outcome) ==
  /\ task \in world.tasks
  /\ task.at \in SendTasks
  /\ outcome \in SendOutcomes(task)
  /\ LET w == [Resume(world, task) EXCEPT
                !.settled = [at |-> task.at, outcome |-> outcome, n |-> @.n + 1]]
     IN  Becomes(CASE outcome = "ok" ->
                        resetInactivityTimer(
                          State(sendUpdateOk(plugin), [w EXCEPT !.updateOkAt = Some(now)]), now)
                   [] outcome = "none" -> resetInactivityTimer(State(plugin, w), now)
                   [] outcome = "failed" -> SendFailed(plugin, w, task.at))

\* startHostSync() after the toast of E_UPDATE_POST: stop('error').
StartHostNotified ==
  /\ Task("startHostSync.notifyError", 0, "") \in world.tasks
  /\ Becomes(stop(State(plugin, Resume(world, Task("startHostSync.notifyError", 0, "")))))

\* The callback of the timer resetInactivityTimer() set: stop('inactive').
\* The clearTimeout of stop() finds the timer that has just fired.
InactivityTimerFires ==
  /\ ~IsNull(plugin.inactivityTimer)
  /\ Val(plugin.inactivityTimer) <= now
  /\ Becomes(stop(State([plugin EXCEPT !.inactivityTimer = Null],
                         [world EXCEPT !.inactivityTimeouts = @ - 1,
                                       !.inactiveStopAt = Some(now)])))

(***************************************************************************)
(* Specifications of the plugin.                                           *)
(***************************************************************************)
ClientConfigs ==
  {config \in PluginConfigs : config.mode = "client" /\ config.inactivityHours = DEFAULT_INACTIVITY_HOURS}

PageUpdates == {JObj(PageUpdateFields(strength, FixedUser)) : strength \in {"strong", "weak"}}

\* A client that follows the relay: it starts, connects, gets page_updates
\* and resyncs while the user navigates.
NextRemoteNav ==
  \/ Counted /\ \E config \in ClientConfigs : Activate(config)
  \/ Counted /\ StartCalled
  \/ Counted /\ StartResumed
  \/ Counted /\ \E task \in world.tasks, result \in {"empty", "remId"} :
                  StartClientFetchDone(task, result, FALSE)
  \/ Counted /\ WsOpen
  \/ Counted /\ \E value \in PageUpdates : WsMessage(value)
  \/ Counted /\ SyncNowCalled
  \/ Counted /\ \E task \in world.tasks, result \in {"empty", "remId"} : SyncNowFetchDone(task, result)
  \/ Counted /\ \E task \in world.tasks, ok \in BOOLEAN : NavDone(task, ok, FALSE)
  \/ Counted /\ \E due \in world.navTimers : NavTimerFires(due)
  \/ Counted /\ \E remote \in BOOLEAN : GlobalOpenRem(Some("r1"), remote)
  \/ Counted /\ PluginTick(REMOTE_NAV_SUPPRESSION_MS)

SpecRemoteNav == Init /\ [][NextRemoteNav]_vars

\* The configurations with the shortest inactivity period, one for each mode.
ShortestPeriodConfigs == {config \in PluginConfigs : config.inactivityHours = 0}

WsMessages ==
  PageUpdates \cup {JObj(WelcomeFields), JObj(EmptyFields), SyntaxError}

\* The whole sync engine of a device in either mode, with every operation
\* of the user, the relay and the timers.
NextPlugin ==
  \/ Counted /\ \E config \in ShortestPeriodConfigs : Activate(config)
  \/ Counted /\ StartCalled
  \/ Counted /\ StartResumed
  \/ Counted /\ StopCalled
  \/ Counted /\ SyncNowCalled
  \/ Counted /\ \E task \in world.tasks, result \in FetchResults, throws \in BOOLEAN :
                  StartClientFetchDone(task, result, throws)
  \/ Counted /\ StartClientNotified
  \/ Counted /\ \E task \in world.tasks, result \in FetchResults : SyncNowFetchDone(task, result)
  \/ Counted /\ \E task \in world.tasks, ok \in BOOLEAN, throws \in BOOLEAN : NavDone(task, ok, throws)
  \/ Counted /\ \E due \in world.navTimers : NavTimerFires(due)
  \/ Counted /\ WsOpen
  \/ Counted /\ \E value \in WsMessages : WsMessage(value)
  \/ Counted /\ WsClosed
  \/ Counted /\ WsErrored
  \/ Counted /\ \E throws \in BOOLEAN : ReconnectTimerFires(throws)
  \/ Counted /\ ConnectNotified
  \/ Counted /\ \E remId \in {Null, Some("r1")} : GlobalOpenRem(remId, FALSE)
  \/ Counted /\ \E task \in world.tasks, outcome \in {"ok", "failed", "none"} : SendDone(task, outcome)
  \/ Counted /\ StartHostNotified
  \/ Counted /\ InactivityTimerFires
  \/ Counted /\ \E d \in {REMOTE_NAV_SUPPRESSION_MS, MS_PER_HOUR} : PluginTick(d)

SpecPlugin == Init /\ [][NextPlugin]_vars

\* A client and its socket.  The operations of the user and of the network
\* are counted; a timer that is due and a toast that was shown go on without
\* being counted, since nothing stops them.
NextReconnect ==
  \/ Counted /\ \E config \in ClientConfigs : Activate(config)
  \/ Counted /\ StartCalled
  \/ Counted /\ StartResumed
  \/ Counted /\ StopCalled
  \/ Counted /\ \E task \in world.tasks, result \in {"failed", "empty"}, throws \in BOOLEAN :
                  StartClientFetchDone(task, result, throws)
  \/ Counted /\ StartClientNotified
  \/ Counted /\ WsOpen
  \/ Counted /\ WsClosed
  \/ Counted /\ WsErrored
  \/ Counted /\ ReconnectTimerFires(TRUE)
  \/ Counted /\ PluginTick(WS_RECONNECT_BASE_DELAY_MS)
  \/ Uncounted /\ ReconnectDue
  \/ Uncounted /\ ReconnectTimerFires(FALSE)
  \/ Uncounted /\ ConnectNotified

SpecReconnect == Init /\ [][NextReconnect]_vars

\* Time passes, a due timer fires and the toast of notifyError returns.
SpecReconnectLive ==
  /\ SpecReconnect
  /\ WF_vars(Uncounted /\ ReconnectDue)
  /\ WF_vars(Uncounted /\ ReconnectTimerFires(FALSE))
  /\ WF_vars(Uncounted /\ ConnectNotified)

\* Half of the window of the invalid payloads, and a little more.
HalfWindow == INVALID_WS_PAYLOAD_WINDOW_MS \div 2
PastHalfWindow == HalfWindow + 1

\* A client and the messages of its socket.
NextInvalidPayload ==
  \/ Counted /\ \E config \in ClientConfigs : Activate(config)
  \/ Counted /\ StartCalled
  \/ Counted /\ StartResumed
  \/ Counted /\ StopCalled
  \/ Counted /\ \E task \in world.tasks : StartClientFetchDone(task, "empty", FALSE)
  \/ Counted /\ WsOpen
  \/ Counted /\ \E value \in WsMessages \ PageUpdates : WsMessage(value)
  \/ Counted /\ WsClosed
  \/ Counted /\ WsErrored
  \/ Counted /\ ReconnectTimerFires(FALSE)
  \/ Counted /\ \E d \in {HalfWindow, PastHalfWindow} : PluginTick(d)

SpecInvalidPayload == Init /\ [][NextInvalidPayload]_vars

HostConfigs == {config \in ShortestPeriodConfigs : config.mode = "host"}

\* A host, its navigations and its updates.
NextHost ==
  \/ Counted /\ \E config \in HostConfigs : Activate(config)
  \/ Counted /\ StartCalled
  \/ Counted /\ StartResumed
  \/ Counted /\ StopCalled
  \/ Counted /\ SyncNowCalled
  \/ Counted /\ \E remId \in {Null, Some("r1"), Some("r2")} : GlobalOpenRem(remId, FALSE)
  \/ Counted /\ \E task \in world.tasks, outcome \in {"ok", "failed", "none"} : SendDone(task, outcome)
  \/ Counted /\ StartHostNotified
  \/ Counted /\ InactivityTimerFires
  \/ Counted /\ PluginTick(MS_PER_HOUR)

SpecHost == Init /\ [][NextHost]_vars

(***************************************************************************)
(* The device id.                                                          *)
(***************************************************************************)
\* The callers of loadDeviceConfig(): init() and refreshConfig() of the
\* runtime, and the settings popup.
Callers == {"PageSyncRuntime.init", "PageSyncRuntime.refreshConfig", "PageSyncSettingsPopup"}

\* The values makeDeviceId() can return: a random part and the time.
DeviceIds == {"pagesync-a", "pagesync-b"}

Load(caller, at, created) == [caller |-> caller, at |-> at, created |-> created]

\* ensureDeviceId() up to the await of getLocal().
EnsureDeviceIdCalled(caller) ==
  /\ \A load \in world.loads : load.caller # caller
  /\ Becomes(State(plugin, [world EXCEPT !.loads = @ \cup {Load(caller, "getLocal", "")}]))

\* ensureDeviceId() from the return of getLocal() to the await of
\* setLocal(), or to its return when an id is stored.
GetLocalReturned(load, created) ==
  /\ load \in world.loads
  /\ load.at = "getLocal"
  /\ Becomes(State(plugin,
       IF ~IsNull(world.storage.deviceId)
         THEN [world EXCEPT !.loads = @ \ {load},
                            !.returned = @ \cup {[caller |-> load.caller,
                                                  id |-> Val(world.storage.deviceId)]}]
         ELSE [world EXCEPT !.loads = (@ \ {load})
                                        \cup {Load(load.caller, "setLocal", created)}]))

\* ensureDeviceId() from the return of setLocal().
SetLocalReturned(load) ==
  /\ load \in world.loads
  /\ load.at = "setLocal"
  /\ Becomes(State(plugin,
       [world EXCEPT !.loads = @ \ {load},
                     !.storage = [deviceId |-> Some(load.created), writes |-> @.writes + 1],
                     !.returned = @ \cup {[caller |-> load.caller, id |-> load.created]}]))

NextDeviceId ==
  \/ Counted /\ \E caller \in Callers : EnsureDeviceIdCalled(caller)
  \/ Counted /\ \E load \in world.loads, created \in DeviceIds : GetLocalReturned(load, created)
  \/ Counted /\ \E load \in world.loads : SetLocalReturned(load)

SpecDeviceId == Init /\ [][NextDeviceId]_vars

(***************************************************************************)
(* Properties.                                                             *)
(***************************************************************************)
\* The state an accepted update is expected to leave: its own three fields
\* and the server time at which it was accepted.
ExpectedState(entry) ==
  [remId |-> Some(entry.remId), strength |-> Some(entry.strength),
   updatedAt |-> Some(ToISOString(entry.at)), sourceClientId |-> Some(entry.sourceClientId)]

AcceptedOf(userId) == {i \in 1..Len(accepted) : accepted[i].userId = userId}

IsStateRead(userId) ==
  /\ response.kind = "state"
  /\ response.status = 200
  /\ response.query = Some(userId)

\* An update was accepted in this step.
AcceptStep == Len(accepted') = Len(accepted) + 1
LastAccepted == accepted[Len(accepted)]

PageUpdatesOf(log) == SelectSeq(log, LAMBDA m : m.type = "page_update")

StateOfMessage(m) ==
  [remId |-> m.remId, strength |-> m.strength, updatedAt |-> m.updatedAt,
   sourceClientId |-> m.sourceClientId]

\* C1: GET /state returns exactly the fields of the last accepted update of
\* the tenant and its server time stamp, as long as the tenant has not been
\* expired since; nothing of an earlier update survives.
C1_LastWriteWinsRead ==
  \A u \in UserIds :
    (IsStateRead(u) /\ ~IsNull(liveUpdate[u]))
      => response.body = ExpectedState(accepted[Val(liveUpdate[u])])

\* A read that follows two accepted updates of one tenant that differ in
\* remId, strength and sourceClientId.
C1_Witness ==
  \E u \in UserIds :
    /\ IsStateRead(u)
    /\ ~IsNull(liveUpdate[u])
    /\ \E i \in AcceptedOf(u) :
         /\ i < Val(liveUpdate[u])
         /\ accepted[i].remId # accepted[Val(liveUpdate[u])].remId
         /\ accepted[i].strength # accepted[Val(liveUpdate[u])].strength
         /\ accepted[i].sourceClientId # accepted[Val(liveUpdate[u])].sourceClientId

\* C2: a page_update of tenant T is only ever sent to connections bound to
\* T, and an accepted update of T leaves the stored state and last-touched
\* time of every other tenant as they were.
C2_TenantIsolation ==
  /\ [](\A c \in ConnIds : \A i \in 1..Len(sent[c]) :
          sent[c][i].type = "page_update" => ws[c].userId = Some(sent[c][i].userId))
  /\ [][AcceptStep =>
          \A u \in UserIds \ {accepted'[Len(accepted')].userId} :
            /\ (u \in DOMAIN latestStateByUserId') = (u \in DOMAIN latestStateByUserId)
            /\ (u \in DOMAIN latestStateLastTouchedAtByUserId')
                 = (u \in DOMAIN latestStateLastTouchedAtByUserId)
            /\ u \in DOMAIN latestStateByUserId
                 => latestStateByUserId'[u] = latestStateByUserId[u]
            /\ u \in DOMAIN latestStateLastTouchedAtByUserId
                 => latestStateLastTouchedAtByUserId'[u] = latestStateLastTouchedAtByUserId[u]
     ]_vars

\* An update of one tenant was accepted while another tenant had a stored
\* state and an OPEN registered connection, which got nothing.
C2_Witness ==
  /\ response.kind = "update"
  /\ response.status = 200
  /\ \E d \in clients :
       /\ ws[d].readyState = "OPEN"
       /\ ws[d].userId # Some(LastAccepted.userId)
       /\ Val(ws[d].userId) \in DOMAIN latestStateByUserId
       /\ ws[d].joinedAt < Len(accepted)
       /\ Len(PageUpdatesOf(sent[d])) = 0

\* The single-tenant relay accepted an update in this step.
single_AcceptStep == single'.response.kind = "update" /\ single'.response.status = 200

BodyEnds(rid) ==
  /\ requests[rid].phase = "reading"
  /\ ~requests[rid].settled
  /\ requests'[rid].phase = "ended"

\* C4: an update rejected by the validator is answered 400 with the
\* validator's code and changes neither the tenant states, the last-touched
\* times, the client activity, the registry nor what was sent.
C4_RejectedUpdateChangesNothing ==
  [][\A rid \in ReqIds :
       BodyEnds(rid) =>
         \A payload \in InvalidPayloads :
           UpdateEnd(rid, payload)
             => /\ response'.kind = "update"
                /\ response'.rid = rid
                /\ response'.status = 400
                /\ response'.body.ok = FALSE
                /\ response'.body.code \in {"E_INVALID_PAYLOAD", "E_INVALID_FIELD"}
                /\ UNCHANGED <<latestStateByUserId, latestStateLastTouchedAtByUserId,
                               activeClients, clients, sent>>
    ]_vars

\* A rejection that arrived while a tenant state was stored and a connection
\* of that tenant was OPEN.
C4_Witness ==
  /\ response.kind = "update"
  /\ response.status = 400
  /\ response.body.code = "E_INVALID_FIELD"
  /\ \E c \in clients :
       /\ ws[c].readyState = "OPEN"
       /\ Val(ws[c].userId) \in DOMAIN latestStateByUserId

\* The time of the last accepted update of a tenant (defined when there is one).
HasAccepted(userId) == AcceptedOf(userId) # {}
LastAcceptedAt(userId) ==
  accepted[CHOOSE i \in AcceptedOf(userId) : \A j \in AcceptedOf(userId) : j <= i].at

\* The garbage collector ran in this step.
SweepStep ==
  /\ UNCHANGED <<now, clients, ws, sent, requests, accepted, sweeps>>
  /\ CleanupInterval \/ \E u \in UserIds : GetState(Some(u))

\* C5: no /state response carries a populated state last touched more than
\* INACTIVITY_TTL_MS before the read; a read more than INACTIVITY_TTL_MS after
\* the tenant's last accepted update returns the empty state; and after a
\* sweep no such tenant has a stored state.
C5_TtlExpiry ==
  /\ [](\A u \in UserIds :
          IsStateRead(u) =>
            /\ ~IsNull(response.body.updatedAt)
                 => response.at - FromISOString(Val(response.body.updatedAt)) <= INACTIVITY_TTL_MS
            /\ (HasAccepted(u) /\ response.at - LastAcceptedAt(u) > INACTIVITY_TTL_MS)
                 => response.body = makeEmptyState)
  /\ [][SweepStep =>
          \A u \in UserIds :
            (HasAccepted(u) /\ now - LastAcceptedAt(u) > INACTIVITY_TTL_MS)
              => /\ u \notin DOMAIN latestStateByUserId'
                 /\ u \notin DOMAIN latestStateLastTouchedAtByUserId'
     ]_vars

\* A read of a tenant whose last update is more than the TTL old.
C5_Witness ==
  \E u \in UserIds :
    /\ IsStateRead(u)
    /\ HasAccepted(u)
    /\ response.at - LastAcceptedAt(u) = INACTIVITY_TTL_MS + 1
    /\ response.body = makeEmptyState


\* C6: a registered connection is never left in the registry by the second
\* heartbeat sweep after its last pong (or its creation): that sweep removes
\* exactly these connections, takes them out of OPEN, and adds one to the
\* stale-termination counter for each of them.  Both relays.
C6_HeartbeatReaping ==
  /\ [](\A c \in clients : sweeps[c] <= 1)
  /\ [][wsHealthInterval =>
          /\ clients \ clients' = {c \in clients : sweeps[c] = 1}
          /\ \A c \in clients \ clients' : ws'[c].readyState # "OPEN"
          /\ metrics'.wsTerminatedStaleTotal
               = metrics.wsTerminatedStaleTotal + Cardinality(clients \ clients')
     ]_vars
  /\ [](\A c \in single.clients : single.sweeps[c] <= 1)
  /\ [][single_wsHealthInterval =>
          /\ single.clients \ single'.clients = {c \in single.clients : single.sweeps[c] = 1}
          /\ \A c \in single.clients \ single'.clients : single'.ws[c].readyState # "OPEN"
          /\ single'.metrics.wsTerminatedStaleTotal
               = single.metrics.wsTerminatedStaleTotal
                   + Cardinality(single.clients \ single'.clients)
     ]_vars

\* A connection that answered one ping and then went silent was terminated.
C6_Witness ==
  \E c \in ConnIds :
    /\ ws[c].terminated
    /\ c \notin clients
    /\ sweeps[c] = 2
    /\ steps >= 5
    /\ metrics.wsTerminatedStaleTotal = 1

AnyNull(state) ==
  IsNull(state.remId) \/ IsNull(state.strength) \/ IsNull(state.updatedAt)
    \/ IsNull(state.sourceClientId)

AllNull(state) ==
  IsNull(state.remId) /\ IsNull(state.strength) /\ IsNull(state.updatedAt)
    /\ IsNull(state.sourceClientId)

IsPageUpdate(m) == m.type = "page_update"

\* C7: every page_update ever sent, by either relay, has a non-null remId,
\* strength, updatedAt and sourceClientId, and a call of broadcastPageUpdate on
\* a state with one of the four fields null sends nothing.
C7_BroadcastSkipsIncompleteState ==
  /\ \A c \in ConnIds :
       /\ \A i \in 1..Len(sent[c]) :
            IsPageUpdate(sent[c][i]) => ~AnyNull(StateOfMessage(sent[c][i]))
       /\ \A i \in 1..Len(single.sent[c]) :
            IsPageUpdate(single.sent[c][i]) => ~AnyNull(StateOfMessage(single.sent[c][i]))
  /\ \A state \in BroadcastStates :
       AnyNull(state) =>
         /\ \A userId \in UserIds :
              broadcastPageUpdate(userId, state, metrics) = [sent |-> sent, metrics |-> metrics]
         /\ single_broadcastPageUpdate([single EXCEPT !.latestState = state])
              = [single EXCEPT !.latestState = state]

\* The global state holds some fields null and the others set, as only a
\* broadcastPageUpdate call on such a state leaves it, and a registered OPEN
\* connection has been sent no page_update.
C7_Witness ==
  /\ AnyNull(single.latestState)
  /\ ~IsNull(single.latestState.remId)
  /\ ~IsNull(single.latestState.sourceClientId)
  /\ \E c \in single.clients :
       /\ single.ws[c].readyState = "OPEN"
       /\ Len(PageUpdatesOf(single.sent[c])) = 0
  /\ single.metrics.wsBroadcastMessagesTotal = 0

ShapeOk(state) == AllNull(state) \/ ~AnyNull(state)

\* C8: in both relays the four fields of every stored tenant state are all
\* null or all non-null, and so are those of every body of a 200 answer of
\* GET /state and of every state object in a 200 answer of POST /update.
C8_StateShape ==
  /\ \A u \in DOMAIN latestStateByUserId : ShapeOk(latestStateByUserId[u])
  /\ \A u \in UserIds : ShapeOk(getStateForUser(u))
  /\ ShapeOk(single.latestState)
  /\ (response.kind = "state" /\ response.status = 200) => ShapeOk(response.body)
  /\ (response.kind = "update" /\ response.status = 200) => ShapeOk(response.body.state)
  /\ (single.response.kind = "state" /\ single.response.status = 200)
       => ShapeOk(single.response.body)
  /\ (single.response.kind = "update" /\ single.response.status = 200)
       => ShapeOk(single.response.body.state)

\* The single-tenant relay stored an update, expired it, and answered a read
\* with the empty state.
C8_Witness ==
  /\ single.response.kind = "state"
  /\ single.response.status = 200
  /\ AllNull(single.response.body)
  /\ single.metrics.memoryLatestStateClearedTotal = 1
  /\ single.metrics.httpUpdateAcceptedTotal = 1

\* C9: per tenant the updatedAt of successively accepted updates never
\* decreases, the page_update messages on one connection carry non-decreasing
\* updatedAt, and a /state read never shows an updatedAt older than that of
\* an update of the tenant accepted before the read.
IsoLeq(a, b) == FromISOString(Val(a)) <= FromISOString(Val(b))

C9_UpdatedAtMonotonic ==
  /\ \A i, j \in 1..Len(accepted) :
       (i < j /\ accepted[i].userId = accepted[j].userId)
         => IsoLeq(accepted[i].updatedAt, accepted[j].updatedAt)
  /\ \A c \in ConnIds : \A i, j \in 1..Len(PageUpdatesOf(sent[c])) :
       i < j => IsoLeq(PageUpdatesOf(sent[c])[i].updatedAt, PageUpdatesOf(sent[c])[j].updatedAt)
  /\ \A u \in UserIds :
       (IsStateRead(u) /\ ~IsNull(response.body.updatedAt))
         => \A i \in AcceptedOf(u) : IsoLeq(accepted[i].updatedAt, response.body.updatedAt)

\* Two updates of one tenant accepted at different times, the second one
\* claiming the older sentAt.
C9_Witness ==
  \E i, j \in 1..Len(accepted) :
    /\ i < j
    /\ accepted[i].userId = accepted[j].userId
    /\ accepted[i].at < accepted[j].at
    /\ ~IsNull(accepted[i].sentAt)
    /\ ~IsNull(accepted[j].sentAt)
    /\ Val(DateParse(Val(accepted[j].sentAt))) < Val(DateParse(Val(accepted[i].sentAt)))

\* The page_update messages a connection is due: those of the updates of its
\* tenant accepted since it connected, in the order they were applied.
RECURSIVE DueSince(_, _, _)
DueSince(userId, from, to) ==
  IF from > to THEN <<>>
  ELSE IF accepted[from].userId = userId
    THEN <<[type |-> "page_update", remId |-> Some(accepted[from].remId),
            strength |-> Some(accepted[from].strength), updatedAt |-> accepted[from].updatedAt,
            userId |-> userId, sourceClientId |-> Some(accepted[from].sourceClientId)]>>
         \o DueSince(userId, from + 1, to)
    ELSE DueSince(userId, from + 1, to)

IsPrefix(a, b) == Len(a) <= Len(b) /\ SubSeq(b, 1, Len(a)) = a

C11_LastCompletedWins ==
  \A u \in UserIds :
    /\ u \in DOMAIN latestStateByUserId => HasAccepted(u)
    /\ (HasAccepted(u) /\ ~IsNull(liveUpdate[u])) =>
         /\ \A i \in AcceptedOf(u) : i <= Val(liveUpdate[u])
         /\ u \in DOMAIN latestStateByUserId
         /\ latestStateByUserId[u] = ExpectedState(accepted[Val(liveUpdate[u])])

\* Two requests of one tenant with interleaved bodies: the request started
\* first ended last and carries the older sentAt, and its state is stored.
C11_Witness ==
  /\ Len(accepted) = 2
  /\ accepted[1].userId = accepted[2].userId
  /\ accepted[1].rid = 2
  /\ accepted[2].rid = 1
  /\ ~IsNull(accepted[1].sentAt)
  /\ ~IsNull(accepted[2].sentAt)
  /\ Val(DateParse(Val(accepted[2].sentAt))) < Val(DateParse(Val(accepted[1].sentAt)))
  /\ latestStateByUserId[accepted[2].userId].remId = Some(accepted[2].remId)
  /\ latestStateByUserId[accepted[2].userId].sourceClientId = Some(accepted[2].sourceClientId)

\* C12: a request whose body went over MAX_BODY_BYTES has been answered
\* exactly once; the step in which the body goes over the limit answers 413
\* E_BODY_TOO_LARGE, no later step of the request (more chunks, the end of the
\* body whatever it parses to, a stream error) answers again, and none of
\* these steps changes the tenant maps, the activity map or the registry or
\* sends anything.
C12_OversizedBodyAnsweredOnce ==
  /\ [](\A rid \in ReqIds :
          requests[rid].body > MAX_BODY_BYTES
            => (requests[rid].settled /\ requests[rid].nResponses = 1))
  /\ [][\A rid \in ReqIds :
          (requests'[rid] # requests[rid] /\ requests'[rid].body > MAX_BODY_BYTES) =>
            /\ UNCHANGED <<latestStateByUserId, latestStateLastTouchedAtByUserId, activeClients,
                           clients, sent>>
            /\ IF requests[rid].body <= MAX_BODY_BYTES
                 THEN response' = UpdateResponse(rid, 413,
                                    ErrorBody("E_BODY_TOO_LARGE", "Body too large"))
                 ELSE response' = NoResponse
     ]_vars

\* An oversized body ended, answered once, while a tenant of an OPEN
\* connection was listening.
C12_Witness ==
  /\ \E rid \in ReqIds :
       /\ requests[rid].phase = "ended"
       /\ requests[rid].body > MAX_BODY_BYTES
       /\ requests[rid].nResponses = 1
  /\ \E c \in clients : ws[c].readyState = "OPEN"
  /\ metrics.httpUpdateRejectedTotal = 1

\* The outcome the rules give in their stated order, with the valid values
\* of each field listed rather than computed.
RuleFailure(code, message) == [ok |-> FALSE, code |-> code, message |-> message]

ExpectedValidation(payload, relay) ==
  IF payload \in NonObjects
    THEN RuleFailure("E_INVALID_PAYLOAD", "Payload must be a plain object")
  ELSE IF "extra" \in DOMAIN payload.f \/ (relay = "single" /\ "userId" \in DOMAIN payload.f)
    THEN RuleFailure("E_INVALID_PAYLOAD", "Unknown payload field")
  ELSE IF Get(payload, "remId") # JStr("r1")
    THEN RuleFailure("E_INVALID_FIELD", "Invalid remId")
  ELSE IF Get(payload, "strength") \notin {JStr("strong"), JStr("weak")}
    THEN RuleFailure("E_INVALID_FIELD", "Invalid strength")
  ELSE IF relay = "multi" /\ Get(payload, "userId") # JStr("u1")
    THEN RuleFailure("E_INVALID_FIELD", "Invalid userId")
  ELSE IF Get(payload, "sourceClientId") # JStr("d1")
    THEN RuleFailure("E_INVALID_FIELD", "Invalid sourceClientId")
  ELSE IF Get(payload, "sentAt") \notin {Undefined, JStr("2024-01-01T00:00:00.000Z")}
    THEN RuleFailure("E_INVALID_FIELD", "Invalid sentAt")
  ELSE [ok |-> TRUE,
        value |-> [k \in (IF relay = "multi"
                            THEN {"remId", "strength", "userId", "sourceClientId", "sentAt"}
                            ELSE {"remId", "strength", "sourceClientId", "sentAt"}) |->
                     IF k = "sentAt"
                       THEN (IF "sentAt" \in DOMAIN payload.f THEN Some(payload.f[k].s) ELSE Null)
                       ELSE payload.f[k].s]]

\* C13: validateUpdatePayload answers with the error of the first failing rule
\* in the order plain object, allowed keys, remId, strength, userId (the
\* multi-tenant relay only), sourceClientId, sentAt, and with the recognized
\* fields exactly when no rule fails.
C13_ValidatorRuleOrder ==
  call.fn = "validateUpdatePayload" => call.result = ExpectedValidation(call.arg, variant)

\* The validator was given a body with an unknown key and a bad remId, and
\* answered E_INVALID_PAYLOAD.
C13_Witness ==
  /\ call.fn = "validateUpdatePayload"
  /\ variant = "multi"
  /\ call.arg \notin NonObjects
  /\ "extra" \in DOMAIN call.arg.f
  /\ Get(call.arg, "remId") = JStr("a b")
  /\ Get(call.arg, "sentAt") = JNumber
  /\ call.result = RuleFailure("E_INVALID_PAYLOAD", "Unknown payload field")

\* C14: a connection whose userId query parameter is missing or no safe id
\* is closed with code 1008 and nothing else happens to it: it is not in the
\* registry, is sent nothing, is not counted as a connection and no heartbeat
\* sweep visits it.  Every connection is either such a one or was registered
\* under a safe id.
C14_InvalidUserRejected ==
  /\ \A c \in ConnIds :
       ws[c].readyState # "NONE" =>
         IF ws[c].registered
           THEN ws[c].userId \in {Some(u) : u \in UserIds}
           ELSE /\ ws[c].closeCode = 1008
                /\ c \notin clients
                /\ sent[c] = <<>>
                /\ sweeps[c] = 0
                /\ ~ws[c].terminated
                /\ ~ws[c].isAlive
  /\ metrics.wsConnectionsTotal = Cardinality({c \in ConnIds : ws[c].registered})
  /\ metrics.wsRejectedInvalidUserTotal = Cardinality({c \in ConnIds : ws[c].closeCode = 1008})

\* A rejected connection beside a registered one that got a page_update and
\* was visited by a heartbeat sweep.
C14_Witness ==
  \E c, d \in ConnIds :
    /\ ws[c].closeCode = 1008
    /\ d \in clients
    /\ sweeps[d] = 1
    /\ Len(PageUpdatesOf(sent[d])) = 1
    /\ metrics.wsConnectionsTotal = 1

\* C15: every registered connection, of either relay, was sent exactly one
\* welcome, as its first message; everything after it is a page_update.
C15_WelcomeFirst ==
  \A c \in ConnIds :
    /\ ws[c].registered =>
         /\ Len(sent[c]) >= 1
         /\ sent[c][1].type = "welcome"
         /\ \A i \in 2..Len(sent[c]) : sent[c][i].type = "page_update"
    /\ single.ws[c].registered =>
         /\ Len(single.sent[c]) >= 1
         /\ single.sent[c][1].type = "welcome"
         /\ \A i \in 2..Len(single.sent[c]) : single.sent[c][i].type = "page_update"

\* A connection of the single-tenant relay with a welcome and then two
\* page_updates.
C15_Witness ==
  \E c \in ConnIds :
    /\ Len(single.sent[c]) = 3
    /\ single.sent[c][1].type = "welcome"
    /\ single.sent[c][3].type = "page_update"

\* C16: broadcast failure isolation.  When the send to one connection fails
\* during a broadcast, every other OPEN connection of the tenant is still
\* sent the page_update by that same call.
C16_BroadcastFailureIsolation ==
  call.fn = "broadcastPageUpdate" =>
    \A c \in call.recipients \ call.throwing :
      (IF variant = "multi" THEN sent[c] ELSE single.sent[c])
        = Append(call.sentBefore[c], call.message)

ErrorCodes ==
  {"E_INVALID_JSON", "E_INVALID_PAYLOAD", "E_INVALID_FIELD", "E_INVALID_QUERY",
   "E_BODY_TOO_LARGE", "E_NOT_FOUND", "E_INTERNAL"}

StatusOfErrorCode(code) ==
  IF code \in {"E_INVALID_JSON", "E_INVALID_PAYLOAD", "E_INVALID_FIELD", "E_INVALID_QUERY"}
    THEN 400
  ELSE IF code = "E_BODY_TOO_LARGE" THEN 413
  ELSE IF code = "E_NOT_FOUND" THEN 404
  ELSE 500

IsFailure(r) == r.kind # "none" /\ r.status # 200

TaxonomyOk(r) ==
  /\ DOMAIN r.body = {"ok", "error", "code"}
  /\ r.body.ok = FALSE
  /\ r.body.code \in ErrorCodes
  /\ r.status = StatusOfErrorCode(r.body.code)

\* C17: every failure response is {ok:false, error, code} with a code of the
\* taxonomy and the status that belongs to the code, and a failure raised in
\* POST /update that carries none of these codes is answered 500 E_INTERNAL.
C17_ErrorTaxonomy ==
  /\ IsFailure(response) => TaxonomyOk(response)
  /\ IsFailure(single.response) => TaxonomyOk(single.response)
  /\ (/\ call.fn = "catch"
      /\ response.kind = "update"
      /\ response.rid = call.rid
      /\ call.rawCode \notin {JStr(code) : code \in ErrorCodes})
       => response.status = 500 /\ response.body.code = "E_INTERNAL"

\* C18: expiry is silent.  A step of either relay in which a sweep clears a
\* stored state (the periodic sweep or the one GET /state runs) sends nothing
\* to any connection and changes neither the registry nor any connection
\* (isAlive, readyState).
C18_SilentExpiry ==
  [][/\ metrics'.memoryLatestStateClearedTotal > metrics.memoryLatestStateClearedTotal
         => UNCHANGED <<sent, clients, ws>>
     /\ single'.metrics.memoryLatestStateClearedTotal > single.metrics.memoryLatestStateClearedTotal
         => /\ single'.sent = single.sent
            /\ single'.clients = single.clients
            /\ single'.ws = single.ws]_vars

\* A tenant was expired while a connection subscribed to it, which had been
\* sent the tenant's page_update, is still registered and OPEN.
C18_Witness ==
  /\ metrics.memoryLatestStateClearedTotal = 1
  /\ \E c \in clients, u \in UserIds :
       /\ ws[c].userId = Some(u)
       /\ ws[c].readyState = "OPEN"
       /\ HasAccepted(u)
       /\ u \notin DOMAIN latestStateByUserId
       /\ Len(PageUpdatesOf(sent[c])) = 1

\* C19: GET /state with a valid userId that has no stored state answers 200
\* with the four fields null and creates no entry: the state map and the
\* last-touched map hold exactly the tenants with an accepted update that
\* has not expired.
C19_ReadCreatesNoEntry ==
  /\ DOMAIN latestStateByUserId = {u \in UserIds : ~IsNull(liveUpdate[u])}
  /\ DOMAIN latestStateLastTouchedAtByUserId = DOMAIN latestStateByUserId
  /\ \A u \in DOMAIN latestStateByUserId : HasAccepted(u)
  /\ (/\ response.kind = "state"
      /\ response.status = 200
      /\ Val(response.query) \notin DOMAIN latestStateByUserId)
       => response.body = makeEmptyState

\* A tenant that was never updated is read while another tenant is stored:
\* the answer is the empty state and the maps hold the other tenant only.
C19_Witness ==
  /\ response.kind = "state"
  /\ response.status = 200
  /\ response.body = makeEmptyState
  /\ ~HasAccepted(Val(response.query))
  /\ DOMAIN latestStateByUserId # {}

WithoutUserIdField(m) == [k \in DOMAIN m \ {"userId"} |-> m[k]]

\* C20: run side by side on the same events, with the userId of the
\* multi-tenant run fixed, the two relays give the same answers: the same
\* status and body for every GET /state and POST /update, and the same
\* messages to the same connections apart from the userId field of a
\* page_update.
C20_SingleIsMultiRestricted ==
  /\ response.kind = single.response.kind
  /\ response.kind # "none" =>
       /\ response.status = single.response.status
       /\ response.body = single.response.body
  /\ \A c \in ConnIds :
       /\ Len(sent[c]) = Len(single.sent[c])
       /\ \A i \in 1..Len(sent[c]) : WithoutUserIdField(sent[c][i]) = single.sent[c][i]

\* Both relays answer a read with a stored page after both sent its
\* page_update to a connection.
C20_Witness ==
  /\ response.kind = "state"
  /\ single.response.kind = "state"
  /\ ~IsNull(response.body.remId)
  /\ \E c \in ConnIds :
       /\ Len(PageUpdatesOf(sent[c])) = 1
       /\ Len(PageUpdatesOf(single.sent[c])) = 1

\* The tenants whose stored state is gone after the step.
RemovedTenants == DOMAIN latestStateByUserId \ DOMAIN latestStateByUserId'

\* C21: apply and expire are atomic.  In every state the tenants with a
\* stored state are the tenants with a last-touched record (single-tenant:
\* latestStateLastTouchedAt is null exactly when latestState is empty), and
\* a stored state is removed only by a GC sweep: the step expires tenants
\* older than the TTL, counts them, and is no update and no WebSocket event.
C21_AtomicApplyAndExpire ==
  /\ [](/\ DOMAIN latestStateByUserId = DOMAIN latestStateLastTouchedAtByUserId
        /\ IsNull(single.latestStateLastTouchedAt) <=> AllNull(single.latestState)
        /\ IsNull(single.latestStateLastTouchedAt) <=> AnyNull(single.latestState))
  /\ [][/\ RemovedTenants # {} =>
             /\ \A u \in RemovedTenants :
                  now - latestStateLastTouchedAtByUserId[u] > INACTIVITY_TTL_MS
             /\ metrics'.memoryLatestStateClearedTotal
                  = metrics.memoryLatestStateClearedTotal + Cardinality(RemovedTenants)
             /\ UNCHANGED <<now, requests, clients, ws, sent, accepted>>
        /\ (~AllNull(single.latestState) /\ AllNull(single'.latestState)) =>
             /\ now - Val(single.latestStateLastTouchedAt) > INACTIVITY_TTL_MS
             /\ single'.metrics.memoryLatestStateClearedTotal
                  = single.metrics.memoryLatestStateClearedTotal + 1
             /\ now' = now
             /\ single'.requests = single.requests
             /\ single'.clients = single.clients
             /\ single'.ws = single.ws
             /\ single'.sent = single.sent
       ]_vars

\* A tenant with an accepted update was expired: it has neither a stored
\* state nor a last-touched record, and the clearance was counted.
C21_Witness ==
  \E u \in UserIds :
    /\ HasAccepted(u)
    /\ u \notin DOMAIN latestStateByUserId
    /\ u \notin DOMAIN latestStateLastTouchedAtByUserId
    /\ metrics.memoryLatestStateClearedTotal = 1

\* The garbage collector of the single-tenant relay ran in this step.
single_SweepStep ==
  /\ now' = now
  /\ single'.requests = single.requests
  /\ single'.ws = single.ws
  /\ single_CleanupInterval \/ single_GetState(Null)

Older(stamp) == now - stamp > INACTIVITY_TTL_MS

\* C22: a sweep at time now removes exactly the tenants with
\* now - lastTouched > INACTIVITY_TTL_MS and exactly the activity records
\* with now - lastSeenAt > INACTIVITY_TTL_MS (an entry aged exactly the TTL is
\* kept), leaves every other entry as it was, and adds the two numbers
\* removed to memoryLatestStateClearedTotal and memoryClientsPrunedTotal.
C22_GcPrecision ==
  [][/\ SweepStep =>
          LET expired == {u \in DOMAIN latestStateLastTouchedAtByUserId :
                            Older(latestStateLastTouchedAtByUserId[u])}
              pruned == {d \in DOMAIN activeClients : Older(activeClients[d].lastSeenAt)}
          IN  /\ DOMAIN latestStateByUserId' = DOMAIN latestStateByUserId \ expired
              /\ DOMAIN latestStateLastTouchedAtByUserId'
                   = DOMAIN latestStateLastTouchedAtByUserId \ expired
              /\ \A u \in DOMAIN latestStateByUserId' :
                   /\ latestStateByUserId'[u] = latestStateByUserId[u]
                   /\ latestStateLastTouchedAtByUserId'[u] = latestStateLastTouchedAtByUserId[u]
              /\ DOMAIN activeClients' = DOMAIN activeClients \ pruned
              /\ \A d \in DOMAIN activeClients' : activeClients'[d] = activeClients[d]
              /\ metrics'.memoryLatestStateClearedTotal
                   = metrics.memoryLatestStateClearedTotal + Cardinality(expired)
              /\ metrics'.memoryClientsPrunedTotal
                   = metrics.memoryClientsPrunedTotal + Cardinality(pruned)
     /\ single_SweepStep =>
          LET expires == /\ ~IsNull(single.latestStateLastTouchedAt)
                         /\ Older(Val(single.latestStateLastTouchedAt))
              pruned == {d \in DOMAIN single.activeClients :
                           Older(single.activeClients[d].lastSeenAt)}
          IN  /\ single'.latestState
                   = IF expires THEN makeEmptyState ELSE single.latestState
              /\ single'.latestStateLastTouchedAt
                   = IF expires THEN Null ELSE single.latestStateLastTouchedAt
              /\ DOMAIN single'.activeClients = DOMAIN single.activeClients \ pruned
              /\ \A d \in DOMAIN single'.activeClients :
                   single'.activeClients[d] = single.activeClients[d]
              /\ single'.metrics.memoryLatestStateClearedTotal
                   = single.metrics.memoryLatestStateClearedTotal + (IF expires THEN 1 ELSE 0)
              /\ single'.metrics.memoryClientsPrunedTotal
                   = single.metrics.memoryClientsPrunedTotal + Cardinality(pruned)
    ]_vars

\* The sweep of a read ran when the tenant's state was exactly
\* INACTIVITY_TTL_MS old and kept it, with the device's activity record.
C22_Witness ==
  /\ response.kind = "state"
  /\ response.status = 200
  /\ ~IsNull(response.body.updatedAt)
  /\ response.at - FromISOString(Val(response.body.updatedAt)) = INACTIVITY_TTL_MS
  /\ \E d \in DOMAIN activeClients : now - activeClients[d].lastSeenAt = INACTIVITY_TTL_MS

\* C23: a responsive connection is never reaped.  sweeps[c] counts the
\* pings sent to c since its last pong (or since it connected).  A registered
\* connection with no unanswered ping has isAlive true, and a step that
\* terminates a connection finds it in the registry with isAlive false and a
\* ping unanswered; so a connection that answers every ping before the next
\* sweep is never terminated, whatever happens between the sweeps.
C23_ResponsiveNeverReaped ==
  /\ [](\A c \in clients : sweeps[c] = 0 => ws[c].isAlive)
  /\ [][\A c \in ConnIds :
          (ws'[c].terminated /\ ~ws[c].terminated) =>
             /\ c \in clients
             /\ ~ws[c].isAlive
             /\ sweeps[c] >= 1
     ]_vars
  /\ [](\A c \in single.clients : single.sweeps[c] = 0 => single.ws[c].isAlive)
  /\ [][\A c \in ConnIds :
          (single'.ws[c].terminated /\ ~single.ws[c].terminated) =>
             /\ c \in single.clients
             /\ ~single.ws[c].isAlive
             /\ single.sweeps[c] >= 1
     ]_vars

\* Two connections went through the same two sweeps: the one that answered
\* the ping in between is still registered and OPEN, the silent one was
\* terminated.
C23_Witness ==
  \E c, d \in ConnIds :
    /\ c < d
    /\ ws[d].terminated
    /\ c \in clients
    /\ ws[c].readyState = "OPEN"
    /\ ~ws[c].terminated
    /\ sweeps[c] = 1

\* The events that end a connection, seen in one step: its close event,
\* its termination by the heartbeat, its error event.
CloseEvent(c) == ws'[c].readyState = "CLOSED" /\ ws[c].readyState # "CLOSED"
Termination(c) == ws'[c].terminated /\ ~ws[c].terminated
ErrorEvent(c) == metrics'.wsErrorsTotal > metrics.wsErrorsTotal /\ ws'[c] # ws[c]

single_CloseEvent(c) ==
  single'.ws[c].readyState = "CLOSED" /\ single.ws[c].readyState # "CLOSED"
single_Termination(c) == single'.ws[c].terminated /\ ~single.ws[c].terminated
single_ErrorEvent(c) ==
  /\ single'.metrics.wsErrorsTotal > single.metrics.wsErrorsTotal
  /\ single'.ws[c] # single.ws[c]

\* The lifecycle without the error event: the registry holds accepted
\* connections that are neither closed nor terminated, a close event or a
\* termination takes the connection out, and a connection that is out stays
\* out and is sent no page_update and no ping.
RegistryLifecycle ==
  /\ [](/\ \A c \in clients :
             ws[c].registered /\ ws[c].readyState # "CLOSED" /\ ~ws[c].terminated
        /\ \A c \in single.clients :
             /\ single.ws[c].registered
             /\ single.ws[c].readyState # "CLOSED"
             /\ ~single.ws[c].terminated)
  /\ [][\A c \in ConnIds :
          /\ (CloseEvent(c) \/ Termination(c)) => c \notin clients'
          /\ (c \notin clients /\ ws[c].readyState # "NONE") =>
               /\ c \notin clients'
               /\ sent'[c] = sent[c]
               /\ sweeps'[c] = sweeps[c]
          /\ (single_CloseEvent(c) \/ single_Termination(c)) => c \notin single'.clients
          /\ (c \notin single.clients /\ single.ws[c].readyState # "NONE") =>
               /\ c \notin single'.clients
               /\ single'.sent[c] = single.sent[c]
               /\ single'.sweeps[c] = single.sweeps[c]
     ]_vars

\* C24: the registry contains exactly the accepted connections that had no
\* close event, no error event and no heartbeat termination; after any of
\* the three the connection is out of the registry and is sent no later
\* page_update or ping.
C24_RegistryLifecycle ==
  /\ RegistryLifecycle
  /\ [][\A c \in ConnIds :
          /\ ErrorEvent(c) => c \notin clients'
          /\ single_ErrorEvent(c) => c \notin single'.clients
     ]_vars

\* C25: once the accumulated body of a request is over MAX_BODY_BYTES the
\* read is aborted: no later chunk is added to the body and the end handler,
\* which parses the body, never runs for it.
C25_BodyLimitAbort ==
  [][\A rid \in ReqIds :
       /\ requests[rid].body > MAX_BODY_BYTES =>
            /\ requests'[rid].body = requests[rid].body
            /\ requests'[rid].phase # "ended"
       /\ single.requests[rid].body > MAX_BODY_BYTES =>
            /\ single'.requests[rid].body = single.requests[rid].body
            /\ single'.requests[rid].phase # "ended"
    ]_vars

RECURSIVE PageUpdatesSent(_, _)
\* The number of page_update messages in the logs of the connections in S.
PageUpdatesSent(log, S) ==
  IF S = {} THEN 0
  ELSE LET c == CHOOSE x \in S : TRUE
       IN  Len(PageUpdatesOf(log[c])) + PageUpdatesSent(log, S \ {c})

Populated(state) ==
  /\ state.remId \notin {Null, Some("")}
  /\ state.strength \notin {Null, Some("")}
  /\ ~IsNull(state.updatedAt)
  /\ state.sourceClientId \notin {Null, Some("")}

\* C26: broadcast accounting.  wsBroadcastRecipientsTotal is the number of
\* page_update messages sent so far, in both relays; a broadcast call made
\* in any reachable state with a fully populated state adds 1 to
\* wsBroadcastMessagesTotal and the number of connections it sends to to
\* wsBroadcastRecipientsTotal, and a call with any other state changes no
\* counter and sends nothing.
C26_BroadcastAccounting ==
  /\ metrics.wsBroadcastRecipientsTotal = PageUpdatesSent(sent, ConnIds)
  /\ single.metrics.wsBroadcastRecipientsTotal = PageUpdatesSent(single.sent, ConnIds)
  /\ metrics.wsBroadcastMessagesTotal <= steps
  /\ \A userId \in UserIds, state \in BroadcastStates :
       LET result == broadcastPageUpdate(userId, state, metrics)
           reached == {c \in ConnIds : result.sent[c] # sent[c]}
       IN  IF Populated(state)
             THEN /\ result.metrics.wsBroadcastMessagesTotal
                       = metrics.wsBroadcastMessagesTotal + 1
                  /\ result.metrics.wsBroadcastRecipientsTotal
                       = metrics.wsBroadcastRecipientsTotal + Cardinality(reached)
                  /\ \A c \in reached :
                       /\ Len(result.sent[c]) = Len(sent[c]) + 1
                       /\ IsPageUpdate(result.sent[c][Len(result.sent[c])])
             ELSE result.metrics = metrics /\ result.sent = sent

\* The variable holds a text that is a number, finite and above zero.
GivenPositive(raw) ==
  /\ ~IsNull(raw)
  /\ Val(raw).form = "decimal"
  /\ Val(raw).num > 0

\* C27: readPositiveIntegerEnv returns a positive integer for every value of
\* the variable: the default when it is unset, empty, not a number, not
\* finite, zero or negative, and otherwise the given positive value; so the
\* port, the TTL and the cleanup interval are at least 1.
C27_ConfigurationFallback ==
  call.fn = "readPositiveIntegerEnv" =>
    /\ call.result >= 1
    /\ ~GivenPositive(call.arg) => call.result = call.fallback
    /\ (GivenPositive(call.arg) /\ Val(call.arg).den = 1) => call.result = Val(call.arg).num

RECURSIVE Answered(_, _)
\* The number of responses given to the update requests in S.
Answered(reqs, S) ==
  IF S = {} THEN 0
  ELSE LET rid == CHOOSE x \in S : TRUE
       IN  reqs[rid].nResponses + Answered(reqs, S \ {rid})

\* C28: update accounting.  Every answered POST /update is counted once,
\* as accepted or as rejected; a step that answers one answers 200 exactly
\* when it overwrote the tenant's state, and no step overwrites the state
\* and answers with an error.
C28_UpdateAccounting ==
  /\ [](/\ metrics.httpUpdateAcceptedTotal + metrics.httpUpdateRejectedTotal
             = Answered(requests, ReqIds)
        /\ single.metrics.httpUpdateAcceptedTotal + single.metrics.httpUpdateRejectedTotal
             = Answered(single.requests, ReqIds))
  /\ [][/\ response'.kind = "update" => (response'.status = 200 <=> AcceptStep)
        /\ AcceptStep => (response'.kind = "update" /\ response'.status = 200)
        /\ single'.response.kind = "update" =>
             (single'.response.status = 200
                <=> single'.metrics.httpUpdateAcceptedTotal
                      = single.metrics.httpUpdateAcceptedTotal + 1)
        /\ single'.metrics.httpUpdateAcceptedTotal # single.metrics.httpUpdateAcceptedTotal =>
             (single'.response.kind = "update" /\ single'.response.status = 200)
     ]_vars

\* The accepted updates sent by a device.
AcceptedBy(device) == {i \in 1..Len(accepted) : accepted[i].sourceClientId = device}
LastAcceptedBy(device) ==
  accepted[CHOOSE i \in AcceptedBy(device) : \A j \in AcceptedBy(device) : j <= i]

\* C29: activity and state agree in the multi-tenant relay.  Every stored
\* tenant state has an activity record for its sourceClientId, seen no
\* earlier than the tenant was last touched (so no sweep has removed the
\* record of a device while a state it produced survives), and every
\* activity record holds the userId, remId and strength of the last
\* accepted update of its device.
C29_ActivityStateConsistency ==
  /\ \A u \in DOMAIN latestStateByUserId :
       LET device == Val(latestStateByUserId[u].sourceClientId)
       IN  /\ device \in DOMAIN activeClients
           /\ activeClients[device].lastSeenAt >= latestStateLastTouchedAtByUserId[u]
  /\ \A device \in DOMAIN activeClients :
       /\ AcceptedBy(device) # {}
       /\ activeClients[device].userId = LastAcceptedBy(device).userId
       /\ activeClients[device].lastRemId = LastAcceptedBy(device).remId
       /\ activeClients[device].lastStrength = LastAcceptedBy(device).strength
       /\ activeClients[device].lastSeenAt = LastAcceptedBy(device).at

\* One device published to two tenants at different times: both states are
\* stored, the older one was last touched before the device was last seen,
\* and the record names the later tenant.
C29_Witness ==
  \E u, v \in DOMAIN latestStateByUserId, device \in DOMAIN activeClients :
    /\ u # v
    /\ latestStateByUserId[u].sourceClientId = Some(device)
    /\ latestStateByUserId[v].sourceClientId = Some(device)
    /\ activeClients[device].userId = v
    /\ latestStateLastTouchedAtByUserId[u] < activeClients[device].lastSeenAt

\* A call of handleServerUpdate on a configured device during which no other
\* handler changed runtimeState.
FollowerCall(mode) ==
  /\ call.fn = "handleServerUpdate"
  /\ ~IsNull(call.config)
  /\ Val(call.config).mode = mode
  /\ call.resumed = call.runtimeState

Followed == call.result.navigated = Some(call.payload.remId)
NotFollowed == IsNull(call.result.navigated) /\ call.result.runtimeState = call.runtimeState

\* The strong/weak rules for the page_updates in Addressed.
FollowerRules(Addressed) ==
  /\ FollowerCall("host") => NotFollowed
  /\ FollowerCall("client") =>
       /\ call.runtimeState = "off" => NotFollowed
       /\ (call.runtimeState = "idle" /\ call.payload.strength = "weak") => NotFollowed
       /\ (call.runtimeState = "sync" /\ Addressed) =>
            Followed /\ call.result.runtimeState = "sync"
       /\ (call.runtimeState = "idle" /\ call.payload.strength = "strong" /\ Addressed) =>
            /\ Followed
            /\ call.navOk => call.result.runtimeState = "sync"

C31_RemoteNavSuppression ==
  /\ [](InRemoteNavigation(world, now) => plugin.isApplyingRemoteNav)
  /\ [](~world.echoIdled)
  /\ [][(plugin.runtimeState = "sync" /\ plugin'.runtimeState = "idle")
          => ~InRemoteNavigation(world, now)]_vars

\* C32: from a stop() until start() is next called runtimeState is off,
\* connectionState is inactive, no socket is held and no reconnect timer is
\* pending, whatever was in flight when stop() ran; and whenever
\* runtimeState is off there is no socket and no reconnect timer.
C32_StopIsFinal ==
  /\ world.stopped =>
       /\ plugin.runtimeState = "off"
       /\ plugin.connectionState = "inactive"
       /\ IsNull(plugin.ws)
       /\ IsNull(plugin.reconnectTimer)
  /\ plugin.runtimeState = "off" => IsNull(plugin.ws) /\ IsNull(plugin.reconnectTimer)

\* The parts of C33 that are about the timer: at most one reconnect timer
\* is pending; the timer of the n-th reconnect since a socket opened or sync
\* stopped (n from 0) is set for min(8000, 500 * 2^n) ms; the attempt counter
\* is 0 while sync is off; no timer set before a stop or a later start tries
\* to connect; the attempt counter is 0 when a socket has just opened.
ReconnectTimerRules ==
  /\ world.reconnectTimeouts <= 1
  /\ ~IsNull(plugin.reconnectTimer) =>
       /\ world.reconnectTimeouts = 1
       /\ Val(plugin.reconnectTimer).due - Val(world.armed).at
            = Min(8000, 500 * 2 ^ Val(world.armed).n)
  /\ plugin.runtimeState = "off" => plugin.reconnectAttempt = 0
  /\ ~world.staleAttempt

SocketOpens == plugin.ws # Some("OPEN") /\ plugin'.ws = Some("OPEN")

\* C33 as stated: the timer rules, and every close of the socket of an
\* active client is followed by a connection attempt.
C33_ClientReconnect_AsStated ==
  /\ []ReconnectTimerRules
  /\ [][SocketOpens => plugin'.reconnectAttempt = 0]_vars
  /\ (world.reconnect # "none") ~> (world.reconnect = "none")

\* C33: the timer rules, and every close of the socket of an active client
\* is followed by a connection attempt unless sync is stopped before the
\* attempt.
C33_ClientReconnect ==
  /\ []ReconnectTimerRules
  /\ [][SocketOpens => plugin'.reconnectAttempt = 0]_vars
  /\ (world.reconnect = "owed") ~> (world.reconnect # "owed")

\* The socket closed a second time in a row before opening: the second
\* reconnect timer is set for 1000 ms.
C33_Witness ==
  /\ world.reconnect = "owed"
  /\ ~IsNull(plugin.reconnectTimer)
  /\ Val(world.armed).n = 1
  /\ Val(plugin.reconnectTimer).due - Val(world.armed).at = 1000
  /\ world.attempts = 2

\* The handler recorded a message it did not recognize.
InvalidArrives == Len(world'.invalidAt) = Len(world.invalidAt) + 1

\* The arrival times that lie within the window at nowMs.
WithinWindow(arrivals, nowMs) ==
  SelectSeq(arrivals, LAMBDA at : nowMs - at <= 30000)

\* C34: a message that is not valid JSON or not of a recognized type leaves
\* the socket and runtimeState as they are and shows no toast; the record
\* list then holds the arrival times of such messages that are at most 30 s
\* old, and connectionState becomes degraded if these are at least 3 and is
\* unchanged otherwise; the list is empty after a socket opens and while
\* sync is off.
C34_InvalidPayloads ==
  /\ [][InvalidArrives =>
          /\ plugin'.ws = plugin.ws
          /\ plugin'.runtimeState = plugin.runtimeState
          /\ world'.toasts = world.toasts
          /\ plugin'.invalidPayloadTimestamps = WithinWindow(world'.invalidAt, now)
          /\ plugin'.connectionState =
               IF Len(WithinWindow(world'.invalidAt, now)) >= 3
                 THEN "degraded" ELSE plugin.connectionState]_vars
  /\ [][SocketOpens => plugin'.invalidPayloadTimestamps = <<>>]_vars
  /\ [](plugin.runtimeState = "off" => plugin.invalidPayloadTimestamps = <<>>)
  /\ [](world.toasts = 0)

\* Three messages were recorded, the first exactly 30 s before the third,
\* and the connection is degraded with its socket open.
C34_Witness ==
  /\ Len(plugin.invalidPayloadTimestamps) = 3
  /\ plugin.invalidPayloadTimestamps[3] - plugin.invalidPayloadTimestamps[1] = 30000
  /\ plugin.connectionState = "degraded"
  /\ plugin.ws = Some("OPEN")
  /\ plugin.runtimeState = "sync"

\* C35: every message the relay has sent on a WebSocket, the welcome and
\* the page_updates, is recognized by the message handler of the client, so
\* that none is recorded as an invalid payload.
C35_ServerMessagesRecognized ==
  \A c \in ConnIds : \A i \in 1..Len(SentOn(c)) :
    \A impl \in Impls : Recognized(impl, ParsedMessage(SentOn(c)[i]))

\* The part of C35 that holds: PageSyncRuntime recognizes every message of
\* the multi-tenant relay, and the hook every page_update of both relays.
ServerMessagesRecognizedByPeer ==
  \A c \in ConnIds : \A i \in 1..Len(SentOn(c)) :
    /\ variant = "multi" => Recognized("PageSyncRuntime", ParsedMessage(SentOn(c)[i]))
    /\ SentOn(c)[i].type = "page_update" =>
         Recognized("usePageSyncSyncEngine", ParsedMessage(SentOn(c)[i]))

\* A sendUpdate() of the caller `at` settled with the outcome.
Settles(at, outcome) ==
  /\ world'.settled.n = world.settled.n + 1
  /\ world'.settled.at = at
  /\ world'.settled.outcome = outcome

LaterSends == {"handleLocalNavigation.sendUpdate", "syncNow.sendUpdate"}
UpdatesInFlight(w) == {task \in w.tasks : task.at \in SendTasks}

\* A host that is not off starts: one strong sendUpdate() is in flight.
HostStartSends ==
  (Mode(plugin) = "host" /\ plugin.runtimeState = "off" /\ plugin'.runtimeState = "sync")
    => Task("startHostSync.sendUpdate", 0, "strong") \in world'.tasks

\* The initial update failed: the toast is shown, and sync is off and the
\* connection inactive when it returns.
InitialFailureStops ==
  /\ Settles("startHostSync.sendUpdate", "failed")
       => /\ Task("startHostSync.notifyError", 0, "") \in world'.tasks
          /\ plugin' = plugin
  /\ (/\ Task("startHostSync.notifyError", 0, "") \in world.tasks
      /\ Task("startHostSync.notifyError", 0, "") \notin world'.tasks)
       => plugin'.runtimeState = "off" /\ plugin'.connectionState = "inactive"

\* A later update failed: degraded, runtimeState as it was, no timer set
\* and no update started.
LaterFailureDegrades ==
  (\E at \in LaterSends : Settles(at, "failed"))
    => /\ plugin'.connectionState = "degraded"
       /\ plugin'.runtimeState = plugin.runtimeState
       /\ plugin'.inactivityTimer = plugin.inactivityTimer
       /\ world'.inactivityTimeouts = world.inactivityTimeouts
       /\ world'.tasks \subseteq world.tasks

\* No update starts when time passes or a timer fires.
NoRetryOnTimer ==
  (now' # now \/ world'.inactiveStopAt # world.inactiveStopAt)
    => UpdatesInFlight(world') \subseteq UpdatesInFlight(world)

\* A navigation of an active host to a rem, other than the repeat of the
\* last one within 250 ms, starts a weak update.
NavigationSends ==
  (/\ plugin'.lastNav # plugin.lastNav
   /\ ~IsNull(plugin'.lastNav.remId)
   /\ Mode(plugin) = "host"
   /\ plugin.runtimeState # "off"
   /\ Cardinality(world.tasks) < MaxTasks)
    => Task("handleLocalNavigation.sendUpdate", 0, "weak") \in world'.tasks

UpdateSucceeds == \E at \in SendTasks : Settles(at, "ok")

\* C36 as stated: starting a host sends a strong update; a failure of it
\* stops sync; a later failure sets degraded and nothing else, no update is
\* retried on a timer, the next navigation sends an update, and the success
\* of an update sets connectionState to connected.
C36_HostPublishFailure_AsStated ==
  /\ [][HostStartSends]_vars
  /\ [][\A outcome \in {"ok", "failed", "none"} :
          Settles("startHostSync.sendUpdate", outcome) => outcome # "none"]_vars
  /\ [][InitialFailureStops]_vars
  /\ [][LaterFailureDegrades]_vars
  /\ [][NoRetryOnTimer]_vars
  /\ [][NavigationSends]_vars
  /\ [][UpdateSucceeds => plugin'.connectionState = "connected"]_vars

\* C36: starting a host calls sendUpdate('strong') once, which sends the
\* update if a rem is open in the focused pane; a failure of it stops sync;
\* a later failure sets degraded and nothing else, no update is retried on
\* a timer, the next navigation to a rem sends an update, and the success
\* of an update sets connectionState to connected unless sync is off by
\* then.
C36_HostPublishFailure ==
  /\ [][HostStartSends]_vars
  /\ [][Settles("startHostSync.sendUpdate", "none") =>
          plugin'.connectionState = plugin.connectionState]_vars
  /\ [][InitialFailureStops]_vars
  /\ [][LaterFailureDegrades]_vars
  /\ [][NoRetryOnTimer]_vars
  /\ [][NavigationSends]_vars
  /\ [][UpdateSucceeds =>
          plugin'.connectionState =
            IF plugin.runtimeState # "off" THEN "connected" ELSE plugin.connectionState]_vars

\* A weak update failed, and the update of the next navigation succeeded:
\* the host is connected again.
C36_Witness ==
  /\ Mode(plugin) = "host"
  /\ plugin.runtimeState = "sync"
  /\ plugin.connectionState = "connected"
  /\ world.settled = [at |-> "handleLocalNavigation.sendUpdate", outcome |-> "ok", n |-> 3]
  /\ plugin.lastNav.remId = Some("r2")

\* The inactivity period in ms of the device's configuration.
FullPeriod == Max(1, Val(plugin.config).inactivityHours) * 60 * 60 * 1000

\* At most one inactivity timer is pending, and only on a host.
OneInactivityTimer ==
  /\ world.inactivityTimeouts <= 1
  /\ IsNull(plugin.inactivityTimer) <=> world.inactivityTimeouts = 0
  /\ ~IsNull(plugin.inactivityTimer) => Mode(plugin) = "host"

\* A successful update of a host sets the timer a full period ahead.
SuccessRearms ==
  (UpdateSucceeds /\ Mode(plugin) = "host" /\ plugin.runtimeState # "off")
    => plugin'.inactivityTimer = Some(now + FullPeriod)

\* The timer stops the host no sooner than a full period after the last
\* successful update.
InactiveStopIsDue ==
  (world'.inactiveStopAt # world.inactiveStopAt /\ ~IsNull(world.updateOkAt))
    => now - Val(world.updateOkAt) >= FullPeriod

\* C37: at most one inactivity timer is pending, never on a client and
\* never while runtimeState is off; a successful update sets it a full
\* period max(1, inactivityHours) hours ahead; the timer stops the host only
\* when a full period has passed since the last successful update.
C37_InactivityTimer ==
  /\ []OneInactivityTimer
  /\ [](plugin.runtimeState = "off" => IsNull(plugin.inactivityTimer))
  /\ [][SuccessRearms]_vars
  /\ [][InactiveStopIsDue]_vars

\* C38: every call of ensureDeviceId returns the same id, and the id is
\* written to the storage at most once, also when calls overlap before an
\* id is stored.
C38_StableDeviceId ==
  /\ Cardinality({r.id : r \in world.returned}) <= 1
  /\ world.storage.writes <= 1

\* The part of C38 that holds: calls that do not overlap before the first
\* write return the stored id.  Once an id is stored and no call is at its
\* write, every call that begins afterwards returns the stored id.
StoredIdIsReturned ==
  [][(/\ ~IsNull(world.storage.deviceId)
      /\ \A load \in world.loads : load.at = "getLocal"
      /\ world'.returned # world.returned)
       => /\ world'.storage = world.storage
          /\ world'.returned \ world.returned \subseteq
               {[caller |-> caller, id |-> Val(world.storage.deviceId)] : caller \in Callers}]_vars

====
